---- MODULE Spec2Model ----
(***************************************************************************)
(* A model of the Vabble receivables back office: the on-ledger storage    *)
(* programs (contracts/*.py), the agent runtime (agents/*.py) and the      *)
(* operator CLI (scripts/cli.py).                                          *)
(*                                                                         *)
(* A byte string is a tuple of one-character strings; a storage prefix is  *)
(* a single token (no prefix of one program is a prefix of another, so a   *)
(* token never collides with id bytes).  A contract's storage is a         *)
(* function whose domain is the set of keys written so far; reading a key  *)
(* outside the domain yields the empty byte string, as storage.get does.   *)
(***************************************************************************)
EXTENDS Integers, Sequences, FiniteSets, TLC

VARIABLES
    shareStore,     \* InvestorShare: contract storage
    shareLast,      \* InvestorShare: the last call, its arguments, result and event
    regStore,       \* ReceivableRegistryV2: contract storage
    regLast,        \* ReceivableRegistryV2: the last call, its arguments and result
    regRegistered,  \* ReceivableRegistryV2: the ids for which register_invoice returned True
    onbFile,        \* OnboardingAgent: the participants file (data/participants.json)
    onbProc,        \* OnboardingAgent: per process, the registration in progress
    onbLast,        \* OnboardingAgent: the last step taken and, if it returned, its result
    onbDropped,     \* OnboardingAgent: the (partition, address) pairs the last returning save removed from the file
    baseAgent,      \* BaseAgent: the fields invoke_contract/call_contract read
    baseLast,       \* BaseAgent: the last call, its arguments and outcome
    demo,           \* CLI demo-flow: environment, position, results so far
    demoInvoices,   \* CLI demo-flow: the invoices file (data/invoices.json)
    termsStore,     \* ImporterTerms: contract storage, key -> bytes
    termsLast,      \* ImporterTerms: the last call, its arguments and result
    termsSucceeded, \* ImporterTerms: invoices on which confirm_payable returned True
    termsYield,     \* ImporterTerms: per invoice, <<y>> for the yield last stored, <<>> for none
    termsRegistered, \* ImporterTerms: invoices for which register_terms returned True
    feeStore,       \* PlatformFee: contract storage, key -> bytes
    feeDeployed,    \* PlatformFee: whether the contract has been deployed
    feeLast,        \* PlatformFee: the last call, its caller, arguments and outcome
    ddStore,        \* DDRegistry: contract storage, key -> bytes
    ddDocsStatus,   \* DDRegistry: per invoice, the docs_status last passed to set_invoice_dd
    riskLast,       \* RiskAgent: the last evaluate call, its metadata, clock and result
    cliLast,        \* CLI: the last get-invoice run, its environment, output and exit status
    iaStore,        \* InvoiceAsset: contract storage, key -> bytes
    iaLast,         \* InvoiceAsset: the last call, its arguments and result
    iaRegistered,   \* InvoiceAsset: the ids for which register_invoice returned True
    chatMessages, \* v1 agent: the conversation history (messages)
    chatRunning, \* v1 agent: whether run_conversation is still in its loop
    chatLast,\* v1 agent: the last turn, what the model asked for and what the second call was given
    agentMode, \* v2 agent: the current mode
    agentTools, \* v2 agent: the tool schema handed to the model, as the names it lists
    agentMessages, \* v2 agent: the conversation history (messages)
    agentRunning, \* v2 agent: whether run_agent is still in its loop
    agentLast,\* v2 agent: the last line read and the number of model calls it caused
    toolLast,\* HTTP tools: the last tool call, the requests it issued and how it ended
    ssStore, \* SimpleStorage: contract storage, key -> bytes
    ssIncrements, \* SimpleStorage: the number of increment() calls made so far
    ssLast,\* SimpleStorage: the last call, its arguments and result
    erStore, \* ExporterRegistry: contract storage, key -> bytes
    erLast, \* ExporterRegistry: the last call, its arguments and result
    erProfiles, \* ExporterRegistry: the exporter ids for which register_profile returned True
    erLinked,\* ExporterRegistry: the (exporter, invoice) pairs for which link_invoice returned True
    listLast,\* ListingAgent: the metadata of the last two _hash_metadata calls and their hashes
    calLast \* ListingAgent: the last create_and_list call, the contract invocations it made and its outcome

shareVars == <<shareStore, shareLast>>
regVars == <<regStore, regLast, regRegistered>>
onbVars == <<onbFile, onbProc, onbLast, onbDropped>>
baseVars == <<baseAgent, baseLast>>
demoVars == <<demo, demoInvoices>>
termsVars == <<termsStore, termsLast, termsSucceeded, termsYield, termsRegistered>>
feeVars == <<feeStore, feeDeployed, feeLast>>
ddVars == <<ddStore, ddDocsStatus>>
riskVars == <<riskLast>>
cliVars == <<cliLast>>
iaVars == <<iaStore, iaLast, iaRegistered>>
chatVars == <<chatMessages, chatRunning, chatLast>>
agentVars == <<agentMode, agentTools, agentMessages, agentRunning, agentLast>>
toolVars == <<toolLast>>
ssVars == <<ssStore, ssIncrements, ssLast>>
erVars == <<erStore, erLast, erProfiles, erLinked>>
listVars == <<listLast>>
calVars == <<calLast>>
vars == <<shareStore, shareLast, regStore, regLast, regRegistered, onbFile, onbProc, onbLast,
          onbDropped,
          baseAgent, baseLast, demo, demoInvoices,
          termsStore, termsLast, termsSucceeded, termsYield, termsRegistered,
          feeStore, feeDeployed, feeLast, ddStore, ddDocsStatus,
          riskLast, cliLast, iaStore, iaLast, iaRegistered,
          chatMessages, chatRunning, chatLast,
          agentMode, agentTools, agentMessages, agentRunning, agentLast,
          toolLast,
          ssStore, ssIncrements, ssLast,
          erStore, erLast, erProfiles, erLinked,
          listLast,
          calLast>>

\* ------------------------------------------------------------ bounds
MaxShareTotal == 2      \* cap on total_allocated of one invoice

\* ------------------------------------------------------ ledger storage
EmptyBytes == <<>>

StorageGet(store, key) == IF key \in DOMAIN store THEN store[key] ELSE EmptyBytes

StoragePut(store, key, value) ==
    [k \in (DOMAIN store) \cup {key} |-> IF k = key THEN value ELSE store[k]]

\* A str argument as stored bytes: the empty string is the empty byte string,
\* any other string is kept as one token.
Str(s) == IF s = "" THEN EmptyBytes ELSE <<s>>

\* StdLib serialize/deserialize of an integer: a type tag and the value.
Serialize(amount) == <<"Integer", amount>>

Deserialize(val) == val[2]

\* ------------------------------------------------------- InvestorShare
ALLOC_PREFIX == "invshare:alloc:"
REDEEM_PREFIX == "invshare:redeem:"
TOTAL_ALLOC_PREFIX == "invshare:total_alloc:"
TOTAL_REDEEM_PREFIX == "invshare:total_redeem:"

\* The ids the calls draw from: byte strings, with and without the '|' byte.
ShareInvoiceIds == { <<"a">>, <<"a", "|", "b">> }
ShareInvestorIds == { <<"c">>, <<"b", "|", "c">> }
ShareAmounts == { -1, 0, 1, 2 }

_k_alloc(invoice_id, investor) == <<ALLOC_PREFIX>> \o invoice_id \o <<"|">> \o investor

_k_redeem(invoice_id, investor) == <<REDEEM_PREFIX>> \o invoice_id \o <<"|">> \o investor

_k_total_alloc(invoice_id) == <<TOTAL_ALLOC_PREFIX>> \o invoice_id

_k_total_redeem(invoice_id) == <<TOTAL_REDEEM_PREFIX>> \o invoice_id

_get_amount(store, key) ==
    LET val == StorageGet(store, key)
    IN  IF val = EmptyBytes THEN 0 ELSE Deserialize(val)

_put_amount(store, key, amount) == StoragePut(store, key, Serialize(amount))

\* The public getters, read from a given storage.
ShareAllocated(store, invoice_id, investor) == _get_amount(store, _k_alloc(invoice_id, investor))

ShareRedeemedAmt(store, invoice_id, investor) == _get_amount(store, _k_redeem(invoice_id, investor))

\* get_share's third field.
ShareAvailable(store, invoice_id, investor) ==
    ShareAllocated(store, invoice_id, investor) - ShareRedeemedAmt(store, invoice_id, investor)

total_allocated(store, invoice_id) == _get_amount(store, _k_total_alloc(invoice_id))

total_claimed(store, invoice_id) == _get_amount(store, _k_total_redeem(invoice_id))

\* The guards of the three mutating calls (True: the call goes through).
AllocateAccepts(amount) == ~(amount <= 0)

TransferAcceptsIgnoringRedeemed(store, invoice_id, from_investor, amount) ==
    /\ ~(amount <= 0)
    /\ ~(ShareAllocated(store, invoice_id, from_investor) < amount)

TransferAccepts(store, invoice_id, from_investor, amount) ==
    /\ ~(amount <= 0)
    /\ ~(ShareAvailable(store, invoice_id, from_investor) < amount)

RedeemAcceptsIgnoringBalance(store, invoice_id, investor, amount) == ~(amount <= 0)

RedeemAccepts(store, invoice_id, investor, amount) ==
    /\ ~(amount <= 0)
    /\ ~(ShareAvailable(store, invoice_id, investor) < amount)

\* The storage after an accepted call, write by write in the code's order.
AllocateStore(store, invoice_id, investor, amount) ==
    LET alloc_key == _k_alloc(invoice_id, investor)
        current == _get_amount(store, alloc_key)
        s1 == _put_amount(store, alloc_key, current + amount)
    IN  _put_amount(s1, _k_total_alloc(invoice_id),
                    _get_amount(s1, _k_total_alloc(invoice_id)) + amount)

TransferStoreWithoutDebit(store, invoice_id, from_investor, to_investor, amount) ==
    LET to_key == _k_alloc(invoice_id, to_investor)
    IN  _put_amount(store, to_key, _get_amount(store, to_key) + amount)

\* A transfer that credits the receiver from the balance read before the debit.
TransferStoreStaleCredit(store, invoice_id, from_investor, to_investor, amount) ==
    LET from_key == _k_alloc(invoice_id, from_investor)
        to_key == _k_alloc(invoice_id, to_investor)
        s1 == _put_amount(store, from_key, _get_amount(store, from_key) - amount)
    IN  _put_amount(s1, to_key, _get_amount(store, to_key) + amount)

TransferStore(store, invoice_id, from_investor, to_investor, amount) ==
    LET from_key == _k_alloc(invoice_id, from_investor)
        to_key == _k_alloc(invoice_id, to_investor)
        from_alloc == _get_amount(store, from_key)
        s1 == _put_amount(store, from_key, from_alloc - amount)
    IN  _put_amount(s1, to_key, _get_amount(s1, to_key) + amount)

RedeemStore(store, invoice_id, investor, amount) ==
    LET redeemed == _get_amount(store, _k_redeem(invoice_id, investor))
        s1 == _put_amount(store, _k_redeem(invoice_id, investor), redeemed + amount)
    IN  _put_amount(s1, _k_total_redeem(invoice_id),
                    _get_amount(s1, _k_total_redeem(invoice_id)) + amount)

NoInvestor == <<>>

ShareCall(op, invoice_id, from, to, amount, ret) ==
    [op |-> op, invoice_id |-> invoice_id, from |-> from, to |-> to,
     amount |-> amount, ret |-> ret, event |-> ret]

ShareInit ==
    /\ shareStore = <<>>
    /\ shareLast = ShareCall("none", <<>>, NoInvestor, NoInvestor, 0, FALSE)

allocate(invoice_id, investor, amount) ==
    /\ total_allocated(shareStore, invoice_id) + amount <= MaxShareTotal
    /\ IF AllocateAccepts(amount)
       THEN /\ shareStore' = AllocateStore(shareStore, invoice_id, investor, amount)
            /\ shareLast' = ShareCall("allocate", invoice_id, investor, NoInvestor, amount, TRUE)
       ELSE /\ shareStore' = shareStore
            /\ shareLast' = ShareCall("allocate", invoice_id, investor, NoInvestor, amount, FALSE)

transfer(invoice_id, from_investor, to_investor, amount) ==
    IF TransferAccepts(shareStore, invoice_id, from_investor, amount)
    THEN /\ shareStore' = TransferStore(shareStore, invoice_id, from_investor, to_investor, amount)
         /\ shareLast' = ShareCall("transfer", invoice_id, from_investor, to_investor, amount, TRUE)
    ELSE /\ shareStore' = shareStore
         /\ shareLast' = ShareCall("transfer", invoice_id, from_investor, to_investor, amount, FALSE)

redeem(invoice_id, investor, amount) ==
    IF RedeemAccepts(shareStore, invoice_id, investor, amount)
    THEN /\ shareStore' = RedeemStore(shareStore, invoice_id, investor, amount)
         /\ shareLast' = ShareCall("redeem", invoice_id, investor, NoInvestor, amount, TRUE)
    ELSE /\ shareStore' = shareStore
         /\ shareLast' = ShareCall("redeem", invoice_id, investor, NoInvestor, amount, FALSE)

\* What a call of this contract leaves alone: every other component.
ShareFrame == UNCHANGED <<regVars, onbVars, baseVars, demoVars, termsVars, feeVars, ddVars, riskVars, cliVars, iaVars, chatVars, agentVars, toolVars, ssVars, erVars, listVars, calVars>>

Allocate == ShareFrame /\ \E i \in ShareInvoiceIds, v \in ShareInvestorIds, n \in ShareAmounts : allocate(i, v, n)

Transfer ==
    /\ ShareFrame
    /\ \E i \in ShareInvoiceIds, f \in ShareInvestorIds, t \in ShareInvestorIds, n \in ShareAmounts :
          transfer(i, f, t, n)

Redeem == ShareFrame /\ \E i \in ShareInvoiceIds, v \in ShareInvestorIds, n \in ShareAmounts : redeem(i, v, n)

ShareNext == Allocate \/ Transfer \/ Redeem

\* ------------------------------------------------ ReceivableRegistryV2
INVOICE_PREFIX == "reg:inv:"
SHARE_PREFIX == "reg:share:"
STATUS_PREFIX == "reg:status:"
ALLOWED_STATUSES == <<"CREATED", "VERIFIED", "ACTIVE", "SETTLED", "CANCELLED">>

RegIds == { <<"r", "1">>, <<"r", "2">> }
RegHashes == { "", "0xaa", "0xbb" }
RegStatusArgs == { "CREATED", "VERIFIED", "ACTIVE", "SETTLED", "CANCELLED", "PAID", "" }

_k_invoice(id) == <<INVOICE_PREFIX>> \o id

_k_share(id) == <<SHARE_PREFIX>> \o id

_k_status(id) == <<STATUS_PREFIX>> \o id

_status_allowed(status) == \E n \in 1 .. Len(ALLOWED_STATUSES) : ALLOWED_STATUSES[n] = status

get_invoice_contract(store, id) == StorageGet(store, _k_invoice(id))

get_share_contract(store, id) == StorageGet(store, _k_share(id))

get_status(store, id) == StorageGet(store, _k_status(id))

\* settle's guard: the three early returns of the code, in order.
SettleAcceptsAnyLive(store, id) ==
    LET current == StorageGet(store, _k_status(id))
    IN  /\ ~(current = EmptyBytes)
        /\ ~(current = Str("SETTLED") \/ current = Str("CANCELLED"))

SettleAccepts(store, id) ==
    LET current == StorageGet(store, _k_status(id))
    IN  /\ ~(current = EmptyBytes)
        /\ ~(current = Str("SETTLED") \/ current = Str("CANCELLED"))
        /\ ~(~(current = Str("ACTIVE") \/ current = Str("VERIFIED")))

RegCall(op, id, arg, ret) == [op |-> op, id |-> id, arg |-> arg, ret |-> ret]

RegInit ==
    /\ regStore = <<>>
    /\ regLast = RegCall("none", <<>>, "", FALSE)
    /\ regRegistered = {}

register_invoice(id, invoice_contract_hash) ==
    IF StorageGet(regStore, _k_invoice(id)) # EmptyBytes
    THEN /\ regStore' = regStore
         /\ regLast' = RegCall("register_invoice", id, invoice_contract_hash, FALSE)
         /\ regRegistered' = regRegistered
    ELSE /\ regStore' = StoragePut(StoragePut(regStore, _k_invoice(id), Str(invoice_contract_hash)),
                                   _k_status(id), Str("CREATED"))
         /\ regLast' = RegCall("register_invoice", id, invoice_contract_hash, TRUE)
         /\ regRegistered' = regRegistered \cup {id}

attach_investor_share(id, share_contract_hash) ==
    IF StorageGet(regStore, _k_invoice(id)) = EmptyBytes
    THEN /\ regStore' = regStore
         /\ regLast' = RegCall("attach_investor_share", id, share_contract_hash, FALSE)
    ELSE /\ regStore' = StoragePut(regStore, _k_share(id), Str(share_contract_hash))
         /\ regLast' = RegCall("attach_investor_share", id, share_contract_hash, TRUE)

set_status(id, status) ==
    IF ~_status_allowed(status) \/ StorageGet(regStore, _k_invoice(id)) = EmptyBytes
    THEN /\ regStore' = regStore
         /\ regLast' = RegCall("set_status", id, status, FALSE)
    ELSE /\ regStore' = StoragePut(regStore, _k_status(id), Str(status))
         /\ regLast' = RegCall("set_status", id, status, TRUE)

settle(id) ==
    IF SettleAccepts(regStore, id)
    THEN /\ regStore' = StoragePut(regStore, _k_status(id), Str("SETTLED"))
         /\ regLast' = RegCall("settle", id, "", TRUE)
    ELSE /\ regStore' = regStore
         /\ regLast' = RegCall("settle", id, "", FALSE)

RegFrame == UNCHANGED <<shareVars, onbVars, baseVars, demoVars, termsVars, feeVars, ddVars, riskVars, cliVars, iaVars, chatVars, agentVars, toolVars, ssVars, erVars, listVars, calVars>>

RegisterInvoice == RegFrame /\ \E id \in RegIds, h \in RegHashes : register_invoice(id, h)

AttachInvestorShare ==
    /\ RegFrame
    /\ regRegistered' = regRegistered
    /\ \E id \in RegIds, h \in RegHashes : attach_investor_share(id, h)

SetStatus ==
    /\ RegFrame
    /\ regRegistered' = regRegistered
    /\ \E id \in RegIds, st \in RegStatusArgs : set_status(id, st)

Settle ==
    /\ RegFrame
    /\ regRegistered' = regRegistered
    /\ \E id \in RegIds : settle(id)

RegNext == RegisterInvoice \/ AttachInvestorShare \/ SetStatus \/ Settle

\* ------------------------------------------------------ OnboardingAgent
\* Processes that each run an OnboardingAgent on the same participants file
\* (two CLI invocations); within one process a call runs to its end.
OnbProcs == { "p1", "p2" }
OnbAddrs == { "0x1111", "0x2222" }
OnbPartitions == { "exporters", "investors" }
\* (name, country) of register_exporter, (name, investor_type) of register_investor
OnbExporterArgs == { <<"First", "US">>, <<"Second", "CA">> }
OnbInvestorArgs == { <<"Summit", "fund">>, <<"Solo", "individual">> }

\* The file's content: unreadable (not JSON), or a JSON object with or without
\* the two partitions.
FileContent(exporters, investors) ==
    [readable |-> TRUE, haskeys |-> TRUE, exporters |-> exporters, investors |-> investors]

UnreadableFile == [readable |-> FALSE, haskeys |-> FALSE, exporters |-> <<>>, investors |-> <<>>]

NoPartitionsFile == [readable |-> TRUE, haskeys |-> FALSE, exporters |-> <<>>, investors |-> <<>>]

\* _ensure_participants_file writes this when the file does not exist.
EmptyParticipants == FileContent(<<>>, <<>>)

_load_participants(file) == IF file.readable THEN file ELSE EmptyParticipants

exporter_data(wallet_address, name, country) ==
    [wallet_address |-> wallet_address, name |-> name, country |-> country,
     registered_at |-> "None"]

investor_data(wallet_address, name, investor_type) ==
    [wallet_address |-> wallet_address, name |-> name, type |-> investor_type,
     registered_at |-> "None"]

NewRecord(partition, wallet_address, args) ==
    IF partition = "exporters"
    THEN exporter_data(wallet_address, args[1], args[2])
    ELSE investor_data(wallet_address, args[1], args[2])

AlreadyMessage(partition) ==
    IF partition = "exporters" THEN "Exporter already registered"
    ELSE "Investor already registered"

RegisteredMessage(partition) ==
    IF partition = "exporters" THEN "Exporter registered successfully"
    ELSE "Investor registered successfully"

\* wallet_address in participants[partition]
AlreadyRegisteredInOtherPartition(participants, partition, wallet_address) ==
    wallet_address \in DOMAIN participants[IF partition = "exporters" THEN "investors" ELSE "exporters"]

AlreadyRegistered(participants, partition, wallet_address) ==
    wallet_address \in DOMAIN participants[partition]

\* participants[partition][wallet_address] = data
WithRecord(participants, partition, wallet_address, data) ==
    LET old == participants[partition]
        new == [a \in (DOMAIN old) \cup {wallet_address} |->
                    IF a = wallet_address THEN data ELSE old[a]]
    IN  [participants EXCEPT ![partition] = new]

\* The (partition, address) pairs a file content holds.
Pairs(file) ==
    { <<partition, a>> : partition \in {"exporters"}, a \in DOMAIN file.exporters }
        \cup { <<partition, a>> : partition \in {"investors"}, a \in DOMAIN file.investors }

NoData == [wallet_address |-> ""]
NoArgs == <<"", "">>
OnbIdle == [pc |-> "idle", partition |-> "", wallet_address |-> "", data |-> NoData,
            participants |-> EmptyParticipants]

OnbStep(proc, phase, partition, wallet_address, args, outcome, success, message, data) ==
    [proc |-> proc, phase |-> phase, partition |-> partition,
     wallet_address |-> wallet_address, args |-> args, outcome |-> outcome,
     success |-> success, message |-> message, data |-> data]

OnbInit ==
    /\ onbFile \in { EmptyParticipants, UnreadableFile, NoPartitionsFile }
    /\ onbProc = [p \in OnbProcs |-> OnbIdle]
    /\ onbLast = OnbStep("", "none", "", "", NoArgs, "none", FALSE, "", NoData)
    /\ onbDropped = {}

OnbQuiet ==
    /\ onbFile = EmptyParticipants
    /\ onbProc = [p \in OnbProcs |-> OnbIdle]
    /\ onbLast = OnbStep("", "none", "", "", NoArgs, "none", FALSE, "", NoData)
    /\ onbDropped = {}

\* register_exporter / register_investor up to the write of the file: the load,
\* the membership test and, for a new address, the insertion in memory.
register_begin(proc, partition, wallet_address, args) ==
    LET participants == _load_participants(onbFile)
        data == NewRecord(partition, wallet_address, args)
    IN  /\ onbProc[proc].pc = "idle"
        /\ onbFile' = onbFile
        /\ onbDropped' = {}
        /\ IF ~participants.haskeys
           THEN \* participants["exporters"] raises KeyError
                /\ onbProc' = onbProc
                /\ onbLast' = OnbStep(proc, "begin", partition, wallet_address, args, "raised",
                                      FALSE, "KeyError", NoData)
           ELSE IF AlreadyRegistered(participants, partition, wallet_address)
           THEN /\ onbProc' = onbProc
                /\ onbLast' = OnbStep(proc, "begin", partition, wallet_address, args, "returned",
                                      TRUE, AlreadyMessage(partition),
                                      participants[partition][wallet_address])
           ELSE /\ onbProc' = [onbProc EXCEPT ![proc] =
                        [pc |-> "saving", partition |-> partition,
                         wallet_address |-> wallet_address, data |-> data,
                         participants |-> WithRecord(participants, partition, wallet_address, data)]]
                /\ onbLast' = OnbStep(proc, "begin", partition, wallet_address, args, "pending",
                                      FALSE, "", NoData)

\* What _save_participants writes: the participants this call loaded, with its
\* record added, whatever the file holds by now.
SavedFileMergedIntoCurrent(file, me) ==
    WithRecord(_load_participants(file), me.partition, me.wallet_address, me.data)

SavedFile(file, me) == me.participants

\* _save_participants succeeds and the call returns its result. Records enter
\* the file only here, so a pair the file holds was saved by a call that
\* returned success.
register_save(proc) ==
    LET me == onbProc[proc]
    IN  /\ me.pc = "saving"
        /\ onbFile' = SavedFile(onbFile, me)
        /\ onbDropped' = Pairs(onbFile) \ Pairs(SavedFile(onbFile, me))
        /\ onbProc' = [onbProc EXCEPT ![proc] = OnbIdle]
        /\ onbLast' = OnbStep(proc, "save", me.partition, me.wallet_address, NoArgs, "returned",
                              TRUE, RegisteredMessage(me.partition), me.data)

\* _save_participants fails and re-raises: open() failed (file as it was) or the
\* dump failed after open() truncated the file.
register_save_fails(proc, truncated) ==
    LET me == onbProc[proc]
    IN  /\ me.pc = "saving"
        /\ onbFile' = IF truncated THEN UnreadableFile ELSE onbFile
        /\ onbDropped' = {}
        /\ onbProc' = [onbProc EXCEPT ![proc] = OnbIdle]
        /\ onbLast' = OnbStep(proc, "save", me.partition, me.wallet_address, NoArgs, "raised",
                              FALSE, "OSError", NoData)

OnbFrame == UNCHANGED <<shareVars, regVars, baseVars, demoVars, termsVars, feeVars, ddVars, riskVars, cliVars, iaVars, chatVars, agentVars, toolVars, ssVars, erVars, listVars, calVars>>

RegisterExporter ==
    /\ OnbFrame
    /\ \E p \in OnbProcs, a \in OnbAddrs, args \in OnbExporterArgs :
          register_begin(p, "exporters", a, args)

RegisterInvestor ==
    /\ OnbFrame
    /\ \E p \in OnbProcs, a \in OnbAddrs, args \in OnbInvestorArgs :
          register_begin(p, "investors", a, args)

SaveParticipants == OnbFrame /\ \E p \in OnbProcs : register_save(p)

SaveParticipantsFails == OnbFrame /\ \E p \in OnbProcs, t \in BOOLEAN : register_save_fails(p, t)

OnbNext == RegisterExporter \/ RegisterInvestor \/ SaveParticipants \/ SaveParticipantsFails

\* ------------------------------------------------------------ BaseAgent
None == "None"
ZeroTxHash == "0x0000000000000000000000000000000000000000000000000000000000000000"

\* The agent's fields: private_key (NEO_WALLET_PRIVATE_KEY or ""), rpc_client
\* (None or a client object) and the module flag NEO_AVAILABLE.
AgentFields(private_key, rpc_client, neo_available) ==
    [private_key |-> private_key, rpc_client |-> rpc_client, NEO_AVAILABLE |-> neo_available]

\* The constructor's rpc_client: a client only if 'neo_mamba' is a name of the
\* module's globals, which "from neo_mamba import ..." does not bind.
NeoMambaInGlobals == FALSE

ConstructedAgent(private_key, neo_available, rpc_url) ==
    AgentFields(private_key,
                IF neo_available /\ rpc_url # "" /\ NeoMambaInGlobals THEN "NeoRPC" ELSE None,
                neo_available)

\* Python truthiness of an optional string.
Truthy(x) == x # None /\ x # ""

\* signer_private_key or self.private_key
SigningKeyFromEnvOnly(agent, signer_private_key) == agent.private_key

SigningKey(agent, signer_private_key) ==
    IF Truthy(signer_private_key) THEN signer_private_key ELSE agent.private_key

\* self.rpc_client and NEO_AVAILABLE
LiveClient(agent) == Truthy(agent.rpc_client) /\ agent.NEO_AVAILABLE

Returned(tx_hash, result, message) ==
    [outcome |-> "returned", success |-> TRUE, tx_hash |-> tx_hash, result |-> result,
     message |-> message, error |-> ""]

Raised(error) ==
    [outcome |-> "raised", success |-> FALSE, tx_hash |-> "", result |-> "", message |-> "",
     error |-> error]

\* The result dictionaries carry no "result" key (invoke) or no "tx_hash" key (call).
Absent == "(absent)"

invoke_contract(agent, contract_hash, operation, args, signer_private_key) ==
    IF ~Truthy(SigningKey(agent, signer_private_key))
    THEN Raised("ValueError: No private key available for signing")
    ELSE IF LiveClient(agent)
    THEN Returned(ZeroTxHash, Absent, "Transaction sent (mock mode)")
    ELSE Returned(ZeroTxHash, Absent, "Mock transaction - Neo libraries not available")

call_contract(agent, contract_hash, operation, args) ==
    IF LiveClient(agent)
    THEN Returned(Absent, None, "Mock call - Neo libraries not fully configured")
    ELSE Returned(Absent, None, "Mock call")

\* The arguments the calls draw from.
BaseHashes == { "", "0xinvoice" }
BaseOperations == { "create_invoice", "get_invoice" }
BaseArgLists == { <<>>, <<"INV001">>, <<"INV001", 500000>> }
BaseSignerKeys == { None, "", "signer-wif" }
BasePrivateKeys == { "", "env-wif" }
BaseRpcClients == { None, "NeoRPC" }

BaseCall(op, contract_hash, operation, args, signer_private_key, res) ==
    [op |-> op, contract_hash |-> contract_hash, operation |-> operation, args |-> args,
     signer_private_key |-> signer_private_key, res |-> res]

NoBaseCall == BaseCall("none", "", "", <<>>, None, Raised(""))

\* Every combination of the fields, whether the constructor or a caller set them.
BaseInit ==
    /\ baseAgent \in { AgentFields(k, c, n) :
                         k \in BasePrivateKeys, c \in BaseRpcClients, n \in BOOLEAN }
    /\ baseLast = NoBaseCall

BaseQuiet ==
    /\ baseAgent = ConstructedAgent("", FALSE, "https://testnet1.neo.org:443")
    /\ baseLast = NoBaseCall

BaseFrame == UNCHANGED <<shareVars, regVars, onbVars, demoVars, termsVars, feeVars, ddVars, riskVars, cliVars, iaVars, chatVars, agentVars, toolVars, ssVars, erVars, listVars, calVars>>

InvokeContract ==
    /\ BaseFrame
    /\ \E h \in BaseHashes, o \in BaseOperations, a \in BaseArgLists, k \in BaseSignerKeys :
          /\ baseLast' = BaseCall("invoke_contract", h, o, a, k,
                                  invoke_contract(baseAgent, h, o, a, k))
          /\ baseAgent' = baseAgent

CallContract ==
    /\ BaseFrame
    /\ \E h \in BaseHashes, o \in BaseOperations, a \in BaseArgLists :
          /\ baseLast' = BaseCall("call_contract", h, o, a, None,
                                  call_contract(baseAgent, h, o, a))
          /\ baseAgent' = baseAgent

BaseNext == InvokeContract \/ CallContract

\* ------------------------------------------------------------ RiskAgent
base_yield_bps == 300
risk_spread_bps == 100
SecondsPerDay == 86400
AmountTierHigh == 1000000
AmountTierMid == 500000
TermTierHigh == 90
TermTierMid == 60
MaxRiskScore == 5
MinRiskScore == 1
high_risk_countries == {}

Max2(a, b) == IF a > b THEN a ELSE b
Min2(a, b) == IF a < b THEN a ELSE b

\* debtor_country.upper(), for the country codes the model uses
Upper(country) ==
    CASE country = "us" -> "US"
      [] country = "pe" -> "PE"
      [] OTHER -> country

days_until_due(due_date, current_time) ==
    Max2(0, (due_date - current_time) \div SecondsPerDay)

RiskScoreShortTermPenalised(amount, due_date, debtor_country, current_time) ==
    LET days == days_until_due(due_date, current_time)
        by_amount == IF amount > AmountTierHigh THEN 2
                     ELSE IF amount > AmountTierMid THEN 1 ELSE 0
        by_term == IF days < TermTierMid THEN 2
                   ELSE IF days < TermTierHigh THEN 1 ELSE 0
    IN  Max2(Min2(1 + by_amount + by_term, MaxRiskScore), MinRiskScore)

risk_score(amount, due_date, debtor_country, current_time) ==
    LET days == days_until_due(due_date, current_time)
        by_amount == IF amount > AmountTierHigh THEN 2
                     ELSE IF amount > AmountTierMid THEN 1 ELSE 0
        by_term == IF days > TermTierHigh THEN 2
                   ELSE IF days > TermTierMid THEN 1 ELSE 0
        by_country == IF Upper(debtor_country) \in high_risk_countries THEN 1 ELSE 0
    IN  Max2(Min2(1 + by_amount + by_term + by_country, MaxRiskScore), MinRiskScore)

YieldBpsWithoutBase(score) == score * risk_spread_bps

yield_bps(score) == base_yield_bps + (score * risk_spread_bps)

evaluate(amount, due_date, debtor_country, current_time) ==
    LET score == risk_score(amount, due_date, debtor_country, current_time)
    IN  [risk_score |-> score, yield_bps |-> yield_bps(score)]

\* ------------------------------------ ListingAgent, FundingAgent, SettlementAgent
\* bytes.fromhex(address.replace('0x', '')) succeeds on these addresses only.
HexAddresses == { "0x0000000000000000000000000000000000000000",
                  "0x1111111111111111111111111111111111111111",
                  "0xa1b2c3d4e5f60718293a4b5c6d7e8f9001122334" }

FromHexOk(address) == address \in HexAddresses

\* create_invoice, list_invoice and fund: the address conversion (where there
\* is one), then invoke_contract.
invoke_with_address(agent, address, operation) ==
    IF ~FromHexOk(address)
    THEN Raised("ValueError: non-hexadecimal number found in fromhex()")
    ELSE invoke_contract(agent, "", operation, <<>>, None)

\* invoice_data.get(field, default) on the payload of a read-only call.
PayloadGetRaises(payload) == payload = None

\* SettlementAgent.settle: invoke, re-read, resolve the status name.
settlement_settle(agent) ==
    LET result == invoke_contract(agent, "", "settle_invoice", <<>>, None)
        invoice_result == call_contract(agent, "", "get_invoice", <<>>)
        invoice_data == invoice_result.result
    IN  IF result.outcome = "raised" THEN result
        ELSE IF PayloadGetRaises(invoice_data)
        THEN Raised("AttributeError: 'NoneType' object has no attribute 'get'")
        ELSE [result EXCEPT !.message = "Invoice settled with status: "]

\* ------------------------------------------------------- CLI demo-flow
DemoAmount == 500000
DemoTermDays == 30
BpsDenominator == 10000
DefaultSeller == "0x0000000000000000000000000000000000000000"
DefaultInvestor == "0x1111111111111111111111111111111111111111"
Unset == "(unset)"

\* NEO_WALLET_ADDRESS: unset, a hex script hash, or a base58 address
DemoWalletAddresses == { Unset, "0xa1b2c3d4e5f60718293a4b5c6d7e8f9001122334",
                         "NXV7ZhHiyM1aHXwpVsRZC6BwNFP2jghXAq" }

GetEnv(value, default) == IF value = Unset THEN default ELSE value

\* data/invoices.json: absent, a JSON mapping (here: the ids it holds), or not JSON
InvoicesAbsent == [exists |-> FALSE, readable |-> FALSE, ids |-> {}]
InvoicesUnreadable == [exists |-> TRUE, readable |-> FALSE, ids |-> {}]
InvoicesHolding(ids) == [exists |-> TRUE, readable |-> TRUE, ids |-> ids]

\* One whole registration call in a process that runs alone.
register_whole(file, partition, wallet_address, args) ==
    LET participants == _load_participants(file)
        data == NewRecord(partition, wallet_address, args)
    IN  IF ~participants.haskeys
        THEN [file |-> file, res |-> Raised("KeyError")]
        ELSE IF AlreadyRegistered(participants, partition, wallet_address)
        THEN [file |-> file, res |-> Returned(Absent, Absent, AlreadyMessage(partition))]
        ELSE [file |-> WithRecord(participants, partition, wallet_address, data),
              res |-> Returned(Absent, Absent, RegisteredMessage(partition))]

DemoEnvs ==
    [private_key : BasePrivateKeys, NEO_WALLET_ADDRESS : DemoWalletAddresses,
     NEO_AVAILABLE : BOOLEAN, now : {1700000000}, elapsed : {0, 1}]

DemoAgent(env) == ConstructedAgent(env.private_key, env.NEO_AVAILABLE, "https://testnet1.neo.org:443")

NoRisk == [risk_score |-> 0, yield_bps |-> 0]
NoFinal == [status |-> "N/A", funded_amount |-> 0]

DemoInit ==
    /\ demo \in [env : DemoEnvs, pc : {"step1"}, error : {""}, risk : {NoRisk},
                 actual_paid : {0}, final : {NoFinal}]
    /\ demoInvoices \in { InvoicesAbsent, InvoicesUnreadable, InvoicesHolding({}),
                          InvoicesHolding({"INV000"}) }

DemoQuiet ==
    /\ demo = [env |-> [private_key |-> "", NEO_WALLET_ADDRESS |-> Unset,
                        NEO_AVAILABLE |-> FALSE, now |-> 1700000000, elapsed |-> 0],
               pc |-> "step1", error |-> "", risk |-> NoRisk, actual_paid |-> 0,
               final |-> NoFinal]
    /\ demoInvoices = InvoicesAbsent

\* A step's outcome: go on to the next step, or stop at the exception raised.
DemoAfter(res, next) ==
    IF res.outcome = "raised"
    THEN [demo EXCEPT !.pc = "crashed", !.error = res.error]
    ELSE [demo EXCEPT !.pc = next]

seller_wallet == GetEnv(demo.env.NEO_WALLET_ADDRESS, DefaultSeller)
investor_wallet == GetEnv(demo.env.NEO_WALLET_ADDRESS, DefaultInvestor)
demo_due_date == demo.env.now + DemoTermDays * SecondsPerDay

\* Steps 1 and 2: register the exporter, register the investor.
DemoRegister(partition, wallet, args, next) ==
    LET r == register_whole(onbFile, partition, wallet, args)
    IN  /\ onbFile' = r.file
        /\ demo' = DemoAfter(r.res, next)
        /\ demoInvoices' = demoInvoices

\* Step 3: merge the metadata into the invoices file, then create on-chain.
DemoCreate ==
    IF demoInvoices.exists /\ ~demoInvoices.readable
    THEN /\ demo' = DemoAfter(Raised("JSONDecodeError"), "step4")
         /\ UNCHANGED <<demoInvoices, onbFile>>
    ELSE /\ demoInvoices' = InvoicesHolding(demoInvoices.ids \cup {"INV001"})
         /\ demo' = DemoAfter(invoke_with_address(DemoAgent(demo.env), seller_wallet,
                                                  "create_invoice"), "step4")
         /\ onbFile' = onbFile

\* Step 4: assess risk, then list.
DemoList ==
    LET risk == evaluate(DemoAmount, demo_due_date, "US", demo.env.now + demo.env.elapsed)
        res == invoke_contract(DemoAgent(demo.env), "", "list_invoice", <<>>, None)
    IN  /\ demo' = [DemoAfter(res, "step5") EXCEPT !.risk = risk]
        /\ UNCHANGED <<demoInvoices, onbFile>>

\* Step 5: fund.
DemoFund ==
    /\ demo' = DemoAfter(invoke_with_address(DemoAgent(demo.env), investor_wallet,
                                             "fund_invoice"), "step6")
    /\ UNCHANGED <<demoInvoices, onbFile>>

\* Step 6: settle with the amount plus yield.
DemoSettle ==
    LET yield_amount == (DemoAmount * demo.risk.yield_bps) \div BpsDenominator
        actual_paid == DemoAmount + yield_amount
    IN  /\ demo' = [DemoAfter(settlement_settle(DemoAgent(demo.env)), "step7")
                        EXCEPT !.actual_paid = actual_paid]
        /\ UNCHANGED <<demoInvoices, onbFile>>

\* Step 7: re-read the invoice and print its status and funded amount.
DemoVerify ==
    LET result == call_contract(DemoAgent(demo.env), "", "get_invoice", <<"INV001">>)
        invoice_data == result.result
    IN  /\ IF PayloadGetRaises(invoice_data)
           THEN demo' = DemoAfter(Raised("AttributeError: 'NoneType' object has no attribute 'get'"),
                                  "done")
           ELSE demo' = [demo EXCEPT !.pc = "done",
                                     !.final = [status |-> invoice_data.status,
                                                funded_amount |-> invoice_data.funded_amount]]
        /\ UNCHANGED <<demoInvoices, onbFile>>

DemoFrame == UNCHANGED <<shareVars, regVars, baseVars, onbProc, onbLast, onbDropped, termsVars, feeVars, ddVars, riskVars, cliVars, iaVars, chatVars, agentVars, toolVars, ssVars, erVars, listVars, calVars>>

\* demo_flow runs its steps in order; an exception ends the run.
DemoFlowStep ==
    /\ DemoFrame
    /\ CASE demo.pc = "step1" ->
              DemoRegister("exporters", seller_wallet, <<"Andes Agro Export", "Peru">>, "step2")
         [] demo.pc = "step2" ->
              DemoRegister("investors", investor_wallet, <<"Summit Credit Fund", "fund">>, "step3")
         [] demo.pc = "step3" -> DemoCreate
         [] demo.pc = "step4" -> DemoList
         [] demo.pc = "step5" -> DemoFund
         [] demo.pc = "step6" -> DemoSettle
         [] demo.pc = "step7" -> DemoVerify
         [] OTHER -> FALSE

DemoNext == DemoFlowStep

\* -------------------------------------------------------- ImporterTerms
TERMS_PREFIX == "imp:terms:"
CONFIRMED_PREFIX == "imp:confirmed:"
IMPORTER_PREFIX == "imp:profile:"
YieldSuffix == <<":", "y", "i", "e", "l", "d">>
ImporterSuffix == <<":", "i", "m", "p", "o", "r", "t", "e", "r">>

\* An integer as the ledger stores it: minimal little-endian two's-complement
\* bytes, zero as no bytes at all (values -128 .. 32767). Each byte is held as
\* its unsigned value, which is what indexing the stored bytes gives.
IntBytes(n) ==
    IF n = 0 THEN <<>>
    ELSE IF n < 0 THEN <<256 + n>>
    ELSE IF n < 128 THEN <<n>>
    ELSE <<n % 256, n \div 256>>

TermsInvoiceIds == { <<"x">>, <<"x">> \o YieldSuffix }
TermsImporterIds == { <<>>, <<"A">> }
TermsYields == { -1, 0, 100, 850 }
NoYield == <<>>
TermsCurrencies == { <<"U", "S", "D">> }
TermsJurisdictions == { <<"C", "H">> }
TermsCompanies == { <<"W", "a", "l", "m", "a", "r", "t">> }
TermsCountries == { <<"U", "S">> }

_k_terms(invoice_id) == <<TERMS_PREFIX>> \o invoice_id
_k_terms_yield(invoice_id) == _k_terms(invoice_id) \o YieldSuffix
_k_terms_importer(invoice_id) == _k_terms(invoice_id) \o ImporterSuffix
_k_confirmed(invoice_id) == <<CONFIRMED_PREFIX>> \o invoice_id
_k_importer(importer_id) == <<IMPORTER_PREFIX>> \o importer_id

get_importer(store, importer_id) == StorageGet(store, _k_importer(importer_id))
get_terms(store, invoice_id) == StorageGet(store, _k_terms(invoice_id))
get_terms_importer(store, invoice_id) == StorageGet(store, _k_terms_importer(invoice_id))
is_confirmed(store, invoice_id) == Len(StorageGet(store, _k_confirmed(invoice_id))) > 0
get_confirmer(store, invoice_id) == StorageGet(store, _k_confirmed(invoice_id))

get_terms_yield(store, invoice_id) ==
    LET raw == StorageGet(store, _k_terms_yield(invoice_id))
    IN  IF Len(raw) = 0 THEN 0
        ELSE IF Len(raw) = 1 THEN raw[1] ELSE 0

\* confirm_payable goes through when terms are stored and no confirmation is.
ConfirmAccepts(store, invoice_id) ==
    /\ ~(Len(get_terms(store, invoice_id)) = 0)
    /\ ~(Len(StorageGet(store, _k_confirmed(invoice_id))) > 0)

TermsCall(op, invoice_id, importer_id, max_yield_bps, ret) ==
    [op |-> op, invoice_id |-> invoice_id, importer_id |-> importer_id,
     max_yield_bps |-> max_yield_bps, ret |-> ret]

TermsInit ==
    /\ termsStore = <<>>
    /\ termsLast = TermsCall("none", <<>>, <<>>, 0, FALSE)
    /\ termsSucceeded = {}
    /\ termsYield = [invoice_id \in TermsInvoiceIds |-> NoYield]
    /\ termsRegistered = {}

register_importer(importer_id, company_name, country) ==
    IF Len(get_importer(termsStore, importer_id)) > 0
    THEN /\ termsStore' = termsStore
         /\ termsLast' = TermsCall("register_importer", <<>>, importer_id, 0, FALSE)
    ELSE /\ termsStore' = StoragePut(termsStore, _k_importer(importer_id),
                                     company_name \o <<"|">> \o country)
         /\ termsLast' = TermsCall("register_importer", <<>>, importer_id, 0, TRUE)

register_terms(invoice_id, importer_id, max_yield_bps, currency, jurisdiction) ==
    IF Len(get_terms(termsStore, invoice_id)) > 0
    THEN /\ termsStore' = termsStore
         /\ termsLast' = TermsCall("register_terms", invoice_id, importer_id, max_yield_bps, FALSE)
         /\ termsYield' = termsYield
         /\ termsRegistered' = termsRegistered
    ELSE /\ termsStore' =
                StoragePut(
                    StoragePut(
                        StoragePut(termsStore, _k_terms(invoice_id),
                                   currency \o <<"|">> \o jurisdiction),
                        _k_terms_yield(invoice_id), IntBytes(max_yield_bps)),
                    _k_terms_importer(invoice_id), importer_id)
         /\ termsLast' = TermsCall("register_terms", invoice_id, importer_id, max_yield_bps, TRUE)
         /\ termsYield' = [termsYield EXCEPT ![invoice_id] = <<max_yield_bps>>]
         /\ termsRegistered' = termsRegistered \cup {invoice_id}

update_terms(invoice_id, max_yield_bps) ==
    IF Len(get_terms(termsStore, invoice_id)) = 0
    THEN /\ termsStore' = termsStore
         /\ termsLast' = TermsCall("update_terms", invoice_id, <<>>, max_yield_bps, FALSE)
         /\ termsYield' = termsYield
    ELSE /\ termsStore' = StoragePut(termsStore, _k_terms_yield(invoice_id),
                                     IntBytes(max_yield_bps))
         /\ termsLast' = TermsCall("update_terms", invoice_id, <<>>, max_yield_bps, TRUE)
         /\ termsYield' = [termsYield EXCEPT ![invoice_id] = <<max_yield_bps>>]

confirm_payable(invoice_id, importer_id) ==
    IF ConfirmAccepts(termsStore, invoice_id)
    THEN /\ termsStore' = StoragePut(termsStore, _k_confirmed(invoice_id), importer_id)
         /\ termsLast' = TermsCall("confirm_payable", invoice_id, importer_id, 0, TRUE)
         /\ termsSucceeded' = termsSucceeded \cup {invoice_id}
    ELSE /\ termsStore' = termsStore
         /\ termsLast' = TermsCall("confirm_payable", invoice_id, importer_id, 0, FALSE)
         /\ termsSucceeded' = termsSucceeded

TermsFrame == UNCHANGED <<shareVars, regVars, onbVars, baseVars, demoVars, feeVars, ddVars, riskVars, cliVars, iaVars, chatVars, agentVars, toolVars, ssVars, erVars, listVars, calVars>>

RegisterImporter ==
    /\ TermsFrame
    /\ termsRegistered' = termsRegistered
    /\ termsSucceeded' = termsSucceeded
    /\ termsYield' = termsYield
    /\ \E importer_id \in TermsImporterIds, company_name \in TermsCompanies,
          country \in TermsCountries :
            register_importer(importer_id, company_name, country)

RegisterTerms ==
    /\ TermsFrame
    /\ termsSucceeded' = termsSucceeded
    /\ \E invoice_id \in TermsInvoiceIds, importer_id \in TermsImporterIds,
          max_yield_bps \in TermsYields, currency \in TermsCurrencies,
          jurisdiction \in TermsJurisdictions :
            register_terms(invoice_id, importer_id, max_yield_bps, currency, jurisdiction)

UpdateTerms ==
    /\ TermsFrame
    /\ termsRegistered' = termsRegistered
    /\ termsSucceeded' = termsSucceeded
    /\ \E invoice_id \in TermsInvoiceIds, max_yield_bps \in TermsYields :
            update_terms(invoice_id, max_yield_bps)

ConfirmPayable ==
    /\ TermsFrame
    /\ termsRegistered' = termsRegistered
    /\ termsYield' = termsYield
    /\ \E invoice_id \in TermsInvoiceIds, importer_id \in TermsImporterIds :
            confirm_payable(invoice_id, importer_id)

TermsNext == RegisterImporter \/ RegisterTerms \/ UpdateTerms \/ ConfirmPayable

\* ---------------------------------------------------------- PlatformFee
K_INVOICE_ASSET_HASH == <<"invoice_asset_hash">>
K_FEE_BALANCE == <<"fee_balance">>
K_OWNER == <<"owner">>

\* Calling script hashes, and the amounts and recipients a call may carry
FeeCallers == { <<"contract_management">>, <<"invoice_asset">>, <<"wallet">>, <<"other">> }
FeeAmounts == { -1, 0, 1, 2, 100 }
FeeRecipients == { <<"wallet">>, <<"other">> }

\* The integer a stored value stands for (values 0 .. 32767).
BytesInt(raw) ==
    IF Len(raw) = 0 THEN 0
    ELSE IF Len(raw) = 1 THEN raw[1]
    ELSE raw[1] + 256 * raw[2]

get_fee_balance(store) == BytesInt(StorageGet(store, K_FEE_BALANCE))

\* The exception record_fee raises on this storage, caller and amount; ""
\* when it raises none.
RecordFeeErrorOnAmountOnly(store, caller, amount) ==
    IF amount <= 0 THEN "Amount must be positive" ELSE ""

RecordFeeError(store, caller, amount) ==
    LET invoice_asset_hash == StorageGet(store, K_INVOICE_ASSET_HASH)
    IN  IF invoice_asset_hash = EmptyBytes THEN "InvoiceAsset hash not configured"
        ELSE IF caller # invoice_asset_hash THEN "Only InvoiceAsset can record fees"
        ELSE IF amount <= 0 THEN "Amount must be positive"
        ELSE ""

WithdrawErrorIgnoringBalance(store, caller) ==
    LET owner == StorageGet(store, K_OWNER)
    IN  IF owner = EmptyBytes THEN "Owner not set"
        ELSE IF caller # owner THEN "Only owner can withdraw"
        ELSE ""

\* The exception withdraw raises on this storage and caller; "" when none.
WithdrawError(store, caller) ==
    LET owner == StorageGet(store, K_OWNER)
    IN  IF owner = EmptyBytes THEN "Owner not set"
        ELSE IF caller # owner THEN "Only owner can withdraw"
        ELSE IF get_fee_balance(store) <= 0 THEN "No fees to withdraw"
        ELSE ""

FeeCall(op, caller, amount, recipient, update, error) ==
    [op |-> op, caller |-> caller, amount |-> amount, recipient |-> recipient,
     update |-> update, outcome |-> IF error = "" THEN "returned" ELSE "aborted",
     error |-> error]

FeeInit ==
    /\ feeStore = <<>>
    /\ feeDeployed = FALSE
    /\ feeLast = FeeCall("none", <<>>, 0, <<>>, FALSE, "")

\* An aborted call leaves the storage as it was.
record_fee(caller, amount) ==
    LET error == RecordFeeError(feeStore, caller, amount)
        new_balance == get_fee_balance(feeStore) + amount
    IN  /\ feeStore' = IF error = ""
                       THEN StoragePut(feeStore, K_FEE_BALANCE, IntBytes(new_balance))
                       ELSE feeStore
        /\ feeLast' = FeeCall("record_fee", caller, amount, <<>>, FALSE, error)

withdraw(caller, recipient) ==
    LET error == WithdrawError(feeStore, caller)
    IN  /\ feeStore' = IF error = ""
                       THEN StoragePut(feeStore, K_FEE_BALANCE, IntBytes(0))
                       ELSE feeStore
        /\ feeLast' = FeeCall("withdraw", caller, 0, recipient, FALSE, error)

_deploy(caller, update) ==
    /\ feeStore' = IF ~update
                   THEN StoragePut(StoragePut(feeStore, K_OWNER, caller),
                                   K_FEE_BALANCE, IntBytes(0))
                   ELSE feeStore
    /\ feeLast' = FeeCall("_deploy", caller, 0, <<>>, update, "")

FeeFrame == UNCHANGED <<shareVars, regVars, onbVars, baseVars, demoVars, termsVars, ddVars, riskVars, cliVars, iaVars, chatVars, agentVars, toolVars, ssVars, erVars, listVars, calVars>>

\* The ledger runs the deployment hook once with update = False, and with
\* update = True on every later update of the contract.
Deploy ==
    /\ FeeFrame
    /\ \E caller \in FeeCallers : _deploy(caller, feeDeployed)
    /\ feeDeployed' = TRUE

RecordFee ==
    /\ FeeFrame
    /\ feeDeployed
    /\ feeDeployed' = feeDeployed
    /\ \E caller \in FeeCallers, amount \in FeeAmounts : record_fee(caller, amount)

Withdraw ==
    /\ FeeFrame
    /\ feeDeployed
    /\ feeDeployed' = feeDeployed
    /\ \E caller \in FeeCallers, recipient \in FeeRecipients : withdraw(caller, recipient)

FeeNext == Deploy \/ RecordFee \/ Withdraw

\* ------------------------------------------------------------ DDRegistry
EXPORTER_DD_PREFIX == "dd:exp:"
INVOICE_DD_PREFIX == "dd:inv:"
VERIFIED_EXP_PREFIX == "dd:verified:exp:"
VERIFIED_INV_PREFIX == "dd:verified:inv:"

DDKey(prefix, id, suffix) == <<prefix>> \o id \o suffix

SfxTier == <<":", "t", "i", "e", "r">>
SfxMerkle == <<":", "m", "e", "r", "k", "l", "e">>
SfxStatus == <<":", "s", "t", "a", "t", "u", "s">>
SfxHash == <<":", "h", "a", "s", "h">>
SfxBl == <<":", "b", "l">>
SfxPo == <<":", "p", "o">>
SfxIns == <<":", "i", "n", "s">>

COMPLETE == <<"C", "O", "M", "P", "L", "E", "T", "E">>
VERIFIED == <<"V", "E", "R", "I", "F", "I", "E", "D">>

DDInvoiceIds == { <<"i", "1">>, <<"i", "2">> }
DDExporterIds == { <<"e", "1">> }
\* docs_status arguments: the four documented values, the empty string, and a
\* longer value that begins with a documented one
DDDocsStatuses == { COMPLETE, VERIFIED, <<"P", "A", "R", "T", "I", "A", "L">>, <<"M", "I", "S", "S", "I", "N", "G">>, <<>>,
                    <<"C", "O", "M", "P", "L", "E", "T", "E", "_", "R", "E", "J", "E", "C", "T", "E", "D">> }
DDHashes == { <<"h">> }
DDFlags == { <<TRUE, TRUE, TRUE>>, <<TRUE, FALSE, FALSE>> }
DDTiers == { <<"TIER_1">>, <<"PENDING">> }
DDKycStatuses == { <<"APPROVED">> }
DDVerifiers == { <<"vabble_ops">> }

\* status[:8]
Prefix8(bytes) == SubSeq(bytes, 1, Min2(8, Len(bytes)))

FlagBytes(flag) == IF flag THEN <<"1">> ELSE <<"0">>

get_invoice_docs_status(store, invoice_id) ==
    StorageGet(store, DDKey(INVOICE_DD_PREFIX, invoice_id, SfxStatus))

is_dd_complete(store, invoice_id) ==
    LET status == StorageGet(store, DDKey(INVOICE_DD_PREFIX, invoice_id, SfxStatus))
    IN  Len(status) >= 8 /\ (Prefix8(status) = COMPLETE \/ Prefix8(status) = VERIFIED)

NoDocsStatus == <<"(none)">>

DDInit ==
    /\ ddStore = <<>>
    /\ ddDocsStatus = [invoice_id \in DDInvoiceIds |-> NoDocsStatus]

set_exporter_dd(exporter_id, kyc_tier, dd_merkle_root, kyc_status) ==
    /\ ddStore' =
          StoragePut(
              StoragePut(
                  StoragePut(ddStore, DDKey(EXPORTER_DD_PREFIX, exporter_id, SfxTier), kyc_tier),
                  DDKey(EXPORTER_DD_PREFIX, exporter_id, SfxMerkle), dd_merkle_root),
              DDKey(EXPORTER_DD_PREFIX, exporter_id, SfxStatus), kyc_status)
    /\ ddDocsStatus' = ddDocsStatus

set_invoice_dd(invoice_id, docs_status, doc_bundle_hash, has_bl, has_po, has_insurance) ==
    LET s1 == StoragePut(ddStore, DDKey(INVOICE_DD_PREFIX, invoice_id, SfxStatus), docs_status)
        s2 == StoragePut(s1, DDKey(INVOICE_DD_PREFIX, invoice_id, SfxHash), doc_bundle_hash)
        s3 == StoragePut(s2, DDKey(INVOICE_DD_PREFIX, invoice_id, SfxBl), FlagBytes(has_bl))
        s4 == StoragePut(s3, DDKey(INVOICE_DD_PREFIX, invoice_id, SfxPo), FlagBytes(has_po))
        s5 == StoragePut(s4, DDKey(INVOICE_DD_PREFIX, invoice_id, SfxIns), FlagBytes(has_insurance))
    IN  /\ ddStore' = s5
        /\ ddDocsStatus' = [ddDocsStatus EXCEPT ![invoice_id] = docs_status]

verify_exporter_dd(exporter_id, verifier) ==
    /\ ddStore' = StoragePut(ddStore, <<VERIFIED_EXP_PREFIX>> \o exporter_id, verifier)
    /\ ddDocsStatus' = ddDocsStatus

verify_invoice_dd(invoice_id, verifier) ==
    /\ ddStore' = StoragePut(ddStore, <<VERIFIED_INV_PREFIX>> \o invoice_id, verifier)
    /\ ddDocsStatus' = ddDocsStatus

DDFrame == UNCHANGED <<shareVars, regVars, onbVars, baseVars, demoVars, termsVars, feeVars, riskVars, cliVars, iaVars, chatVars, agentVars, toolVars, ssVars, erVars, listVars, calVars>>

SetExporterDD ==
    /\ DDFrame
    /\ \E exporter_id \in DDExporterIds, kyc_tier \in DDTiers, dd_merkle_root \in DDHashes,
          kyc_status \in DDKycStatuses :
            set_exporter_dd(exporter_id, kyc_tier, dd_merkle_root, kyc_status)

SetInvoiceDD ==
    /\ DDFrame
    /\ \E invoice_id \in DDInvoiceIds, docs_status \in DDDocsStatuses,
          doc_bundle_hash \in DDHashes, flags \in DDFlags :
            set_invoice_dd(invoice_id, docs_status, doc_bundle_hash,
                           flags[1], flags[2], flags[3])

VerifyExporterDD ==
    /\ DDFrame
    /\ \E exporter_id \in DDExporterIds, verifier \in DDVerifiers :
            verify_exporter_dd(exporter_id, verifier)

VerifyInvoiceDD ==
    /\ DDFrame
    /\ \E invoice_id \in DDInvoiceIds, verifier \in DDVerifiers :
            verify_invoice_dd(invoice_id, verifier)

DDNext == SetExporterDD \/ SetInvoiceDD \/ VerifyExporterDD \/ VerifyInvoiceDD

\* ------------------------------------------------- RiskAgent.evaluate calls
\* evaluate as it is called: on a metadata dictionary, reading the clock.
\* invoice_metadata.get(field, default)
MetaGet(invoice_metadata, field, default) ==
    IF field \in DOMAIN invoice_metadata THEN invoice_metadata[field] ELSE default

evaluate_metadata(invoice_metadata, current_time) ==
    evaluate(MetaGet(invoice_metadata, "amount", 0),
             MetaGet(invoice_metadata, "due_date", 0),
             MetaGet(invoice_metadata, "debtor_country", ""),
             current_time)

RiskClock == { 1736204800 }
RiskAmounts == { -1, 0, 500000, 500001, 1000000, 1000001 }
\* due dates around the 60- and 90-day thresholds, in the past, and at zero
RiskDueOffsets == { -86400, 0, 60 * 86400 + 86399, 61 * 86400, 90 * 86400 + 86399,
                    91 * 86400 }
RiskCountries == { "US", "us", "XX" }
RiskFieldSets == SUBSET { "amount", "due_date", "debtor_country" }

\* The metadata dictionaries with these fields present.
RiskMetadata(fields, amount, due_date, debtor_country) ==
    [f \in fields |-> CASE f = "amount" -> amount
                        [] f = "due_date" -> due_date
                        [] OTHER -> debtor_country]

NoRiskCall == [called |-> FALSE, amount |-> 0, due_date |-> 0, debtor_country |-> "",
               current_time |-> 0, result |-> NoRisk]

RiskInit == riskLast = NoRiskCall

RiskFrame == UNCHANGED <<shareVars, regVars, onbVars, baseVars, demoVars, termsVars, feeVars,
                         ddVars, cliVars, iaVars, chatVars, agentVars, toolVars, ssVars, erVars, listVars, calVars>>

Evaluate ==
    /\ RiskFrame
    /\ \E fields \in RiskFieldSets, amount \in RiskAmounts, offset \in RiskDueOffsets,
          debtor_country \in RiskCountries, current_time \in RiskClock :
            LET invoice_metadata ==
                    RiskMetadata(fields, amount, current_time + offset, debtor_country)
            IN  riskLast' = [called |-> TRUE,
                             amount |-> MetaGet(invoice_metadata, "amount", 0),
                             due_date |-> MetaGet(invoice_metadata, "due_date", 0),
                             debtor_country |-> MetaGet(invoice_metadata, "debtor_country", ""),
                             current_time |-> current_time,
                             result |-> evaluate_metadata(invoice_metadata, current_time)]

RiskNext == Evaluate

\* ------------------------------------------------------- CLI get-invoice
CliInvoiceIds == { "INV001", "INV404", "" }

\* The process exit status: an exception that leaves the command is reported
\* with a traceback and status 1; a command that returns exits with 0.
ExitStatus(raised) == IF raised THEN 1 ELSE 0

\* get_invoice: the read-only call, then the fields of its result are read
\* and the JSON output is printed.
cli_get_invoice(agent, invoice_id) ==
    LET result == call_contract(agent, "", "get_invoice", <<invoice_id>>)
        invoice_data == result.result
        raised == PayloadGetRaises(invoice_data)
    IN  [printed |-> ~raised,
         error |-> IF raised THEN "AttributeError: 'NoneType' object has no attribute 'get'"
                   ELSE "",
         exit_status |-> ExitStatus(raised)]

NoCliRun == [command |-> "none", invoice_id |-> "", private_key |-> "",
             NEO_AVAILABLE |-> FALSE, printed |-> FALSE, error |-> "", exit_status |-> 0]

CliInit == cliLast = NoCliRun

CliFrame == UNCHANGED <<shareVars, regVars, onbVars, baseVars, demoVars, termsVars, feeVars,
                        ddVars, riskVars, iaVars, chatVars, agentVars, toolVars, ssVars, erVars, listVars, calVars>>

GetInvoice ==
    /\ CliFrame
    /\ \E invoice_id \in CliInvoiceIds, private_key \in BasePrivateKeys,
          neo_available \in BOOLEAN :
            LET run == cli_get_invoice(
                           ConstructedAgent(private_key, neo_available,
                                            "https://testnet1.neo.org:443"),
                           invoice_id)
            IN  cliLast' = [command |-> "get-invoice", invoice_id |-> invoice_id,
                            private_key |-> private_key, NEO_AVAILABLE |-> neo_available,
                            printed |-> run.printed, error |-> run.error,
                            exit_status |-> run.exit_status]

\* demo-flow as a command: it has printed its closing lines when it reaches
\* the end, and exits like any command.
DemoPrinted == demo.pc = "done"
DemoExitStatus == ExitStatus(demo.pc = "crashed")

CliNext == GetInvoice \/ DemoFlowStep

\* --------------------------------------------------------- InvoiceAsset
IA_DATA_PREFIX == "inv:data:"
IA_STATUS_PREFIX == "inv:status:"

IAIds == { <<"a">>, <<"b">> }
\* status arguments: lifecycle names, an unknown name and the empty string
IAStatusArgs == { "issued", "funded", "settled", "bogus", "" }
IABuyers == { "Walmart" }
IASellers == { "Andes Agro Export" }
IAAmounts == { 500000 }
IACurrencies == { "USD" }
IADueDates == { 1736204800 }
IAMetas == { "0xmeta" }

ia_data_key(id) == <<IA_DATA_PREFIX>> \o id
ia_status_key(id) == <<IA_STATUS_PREFIX>> \o id

ia_get_invoice(store, id) == StorageGet(store, ia_data_key(id))
ia_status(store, id) == StorageGet(store, ia_status_key(id))

IACall(op, id, status, ret) == [op |-> op, id |-> id, status |-> status, ret |-> ret]

IAInit ==
    /\ iaStore = <<>>
    /\ iaLast = IACall("none", <<>>, "", FALSE)
    /\ iaRegistered = {}

ia_register_invoice(id, buyer, seller, amount, currency, due_date, meta) ==
    IF Len(StorageGet(iaStore, ia_data_key(id))) > 0
    THEN /\ iaStore' = iaStore
         /\ iaLast' = IACall("register_invoice", id, "", FALSE)
         /\ iaRegistered' = iaRegistered
    ELSE /\ iaStore' = StoragePut(StoragePut(iaStore, ia_data_key(id), Str("registered")),
                                  ia_status_key(id), Str("issued"))
         /\ iaLast' = IACall("register_invoice", id, "", TRUE)
         /\ iaRegistered' = iaRegistered \cup {id}

ia_update_status(id, status) ==
    /\ iaRegistered' = iaRegistered
    /\ IF Len(StorageGet(iaStore, ia_status_key(id))) = 0
       THEN /\ iaStore' = iaStore
            /\ iaLast' = IACall("update_status", id, status, FALSE)
       ELSE /\ iaStore' = StoragePut(iaStore, ia_status_key(id), Str(status))
            /\ iaLast' = IACall("update_status", id, status, TRUE)

ia_settle_invoice(id) ==
    /\ iaRegistered' = iaRegistered
    /\ IF Len(StorageGet(iaStore, ia_status_key(id))) = 0
       THEN /\ iaStore' = iaStore
            /\ iaLast' = IACall("settle_invoice", id, "", FALSE)
       ELSE /\ iaStore' = StoragePut(iaStore, ia_status_key(id), Str("settled"))
            /\ iaLast' = IACall("settle_invoice", id, "", TRUE)

IAFrame == UNCHANGED <<shareVars, regVars, onbVars, baseVars, demoVars, termsVars, feeVars,
                       ddVars, riskVars, cliVars, chatVars, agentVars, toolVars, ssVars, erVars, listVars, calVars>>

IARegisterInvoice ==
    /\ IAFrame
    /\ \E id \in IAIds, buyer \in IABuyers, seller \in IASellers, amount \in IAAmounts,
          currency \in IACurrencies, due_date \in IADueDates, meta \in IAMetas :
            ia_register_invoice(id, buyer, seller, amount, currency, due_date, meta)

IAUpdateStatus == IAFrame /\ \E id \in IAIds, status \in IAStatusArgs : ia_update_status(id, status)

IASettleInvoice == IAFrame /\ \E id \in IAIds : ia_settle_invoice(id)

IANext == IARegisterInvoice \/ IAUpdateStatus \/ IASettleInvoice

\* ------------------------------------------------------ specifications
\* ------------------------------------------------ v1 conversational agent
\* scripts/agent/vabble_agent.py, run_conversation: one turn of the loop reads
\* a line, calls the model with the tools, runs the tool calls it asks for and
\* calls the model a second time.
TOOL_MAP ==
    { "register_invoice", "allocate_shares", "registry_register", "set_status",
      "settle_invoice", "query_invoice_status" }

SYSTEM_PROMPT == "You are Vabble Agent"

MaxChatTurns == 2
MaxToolCalls == 2

\* What the user types, what the model names as a tool, the arguments string
\* it sends, and what a tool returns (the parsed body or the error envelope).
ChatInputs == { "quit", "register INV-1001" }
ChatToolNames == { "set_status", "query_invoice_status", "get_invoice" }
NotJson == "{invoice_id:"
ChatArguments == { "{\"invoice_id\": \"INV-1001\"}", NotJson }
ToolResults == { "{\"txid\": \"0xabc\"}", "{\"error\": \"Connection refused\"}" }
ChatReplies == { "Done." }
Raises == "raises"

ChatToolCalls ==
    UNION { [1..n -> [name : ChatToolNames, arguments : ChatArguments]] : n \in 1..MaxToolCalls }

NoToolCalls == <<>>

Message(role, content) ==
    [role |-> role, content |-> content, tool_calls |-> NoToolCalls, tool_call_id |-> 0, name |-> ""]

\* The assistant message that carries the tool calls; call i has id i.
ResponseMessage(tool_calls) ==
    [role |-> "assistant", content |-> "", tool_calls |-> tool_calls, tool_call_id |-> 0, name |-> ""]

ToolMessage(tool_call_id, function_name, content) ==
    [role |-> "tool", content |-> content, tool_calls |-> NoToolCalls,
     tool_call_id |-> tool_call_id, name |-> function_name]

\* The for loop over tool_calls from call i on: json.loads of the arguments
\* raises on a string that is not JSON; a name in TOOL_MAP is called and its
\* result appended; any other name is only reported.
RECURSIVE RunToolCalls(_, _, _, _)
RunToolCalls(messages, tool_calls, results, i) ==
    IF i > Len(tool_calls) THEN [messages |-> messages, raised |-> FALSE]
    ELSE IF tool_calls[i].arguments = NotJson THEN [messages |-> messages, raised |-> TRUE]
    ELSE IF tool_calls[i].name \in TOOL_MAP
         THEN RunToolCalls(Append(messages,
                                  ToolMessage(i, tool_calls[i].name, results[i])),
                           tool_calls, results, i + 1)
         ELSE RunToolCalls(messages, tool_calls, results, i + 1)

UserTurns(messages) == Cardinality({ i \in 1..Len(messages) : messages[i].role = "user" })

NoSecondCall == <<>>

ChatTurnRecord(user_input, first_messages, tool_calls, second_made, second_messages) ==
    [user_input |-> user_input, first_messages |-> first_messages, tool_calls |-> tool_calls,
     second_made |-> second_made, second_messages |-> second_messages]

NoChatTurn == ChatTurnRecord("", <<>>, NoToolCalls, FALSE, NoSecondCall)

ChatInit ==
    /\ chatMessages = << Message("system", SYSTEM_PROMPT) >>
    /\ chatRunning = TRUE
    /\ chatLast = NoChatTurn

\* first is what the first model call gives: Raises or the content of its
\* message, tool_calls the tool calls of that message (none for a plain
\* reply); second is what the second model call gives: Raises or a reply.
run_conversation_turn(user_input, first, tool_calls, results, second) ==
    LET asked == Append(chatMessages, Message("user", user_input)) IN
    IF user_input \in { "quit", "exit" }
    THEN /\ chatRunning' = FALSE
         /\ chatMessages' = chatMessages
         /\ chatLast' = ChatTurnRecord(user_input, <<>>, NoToolCalls, FALSE, NoSecondCall)
    ELSE /\ chatRunning' = TRUE
         /\ IF first = Raises
            THEN /\ chatMessages' = asked
                 /\ chatLast' = ChatTurnRecord(user_input, asked, NoToolCalls, FALSE, NoSecondCall)
            ELSE IF tool_calls = NoToolCalls
            THEN /\ chatMessages' = Append(asked, Message("assistant", first))
                 /\ chatLast' = ChatTurnRecord(user_input, asked, NoToolCalls, FALSE, NoSecondCall)
            ELSE LET ran == RunToolCalls(Append(asked, ResponseMessage(tool_calls)),
                                         tool_calls, results, 1) IN
                 IF ran.raised
                 THEN /\ chatMessages' = ran.messages
                      /\ chatLast' = ChatTurnRecord(user_input, asked, tool_calls, FALSE, NoSecondCall)
                 ELSE /\ chatMessages' =
                            IF second = Raises THEN ran.messages
                            ELSE Append(ran.messages, Message("assistant", second))
                      /\ chatLast' = ChatTurnRecord(user_input, asked, tool_calls, TRUE, ran.messages)

ChatFrame == UNCHANGED <<shareVars, regVars, onbVars, baseVars, demoVars, termsVars, feeVars,
                         ddVars, riskVars, cliVars, iaVars, agentVars, toolVars, ssVars, erVars, listVars, calVars>>

ChatTurn ==
    /\ ChatFrame
    /\ chatRunning
    /\ UserTurns(chatMessages) < MaxChatTurns
    /\ \E user_input \in ChatInputs, second \in ChatReplies \cup {Raises},
          results \in [1..MaxToolCalls -> ToolResults] :
          \E first \in ChatReplies \cup {Raises}, tool_calls \in ChatToolCalls \cup {NoToolCalls} :
                run_conversation_turn(user_input, first, tool_calls, results, second)

ChatNext == ChatTurn

\* ------------------------------------------------ v2 conversational agent
\* scripts/agent/vabble_agent_v2.py, run_agent and get_mode_config. A line of
\* input is a tuple of characters, so that lower(), strip(), startswith() and
\* split() are computed, not assumed.
UpperLetters == <<"A", "B", "C", "D", "E", "F", "G", "H", "I", "J", "K", "L", "M",
                  "N", "O", "P", "Q", "R", "S", "T", "U", "V", "W", "X", "Y", "Z">>
LowerLetters == <<"a", "b", "c", "d", "e", "f", "g", "h", "i", "j", "k", "l", "m",
                  "n", "o", "p", "q", "r", "s", "t", "u", "v", "w", "x", "y", "z">>

LowerChar(c) ==
    IF \E i \in 1..Len(UpperLetters) : UpperLetters[i] = c
    THEN LowerLetters[CHOOSE i \in 1..Len(UpperLetters) : UpperLetters[i] = c]
    ELSE c

Lower(text) == [i \in 1..Len(text) |-> LowerChar(text[i])]

RECURSIVE LStrip(_)
LStrip(text) == IF text # <<>> /\ Head(text) = " " THEN LStrip(Tail(text)) ELSE text

RECURSIVE RStrip(_)
RStrip(text) ==
    IF text # <<>> /\ text[Len(text)] = " " THEN RStrip(SubSeq(text, 1, Len(text) - 1)) ELSE text

Strip(text) == LStrip(RStrip(text))

StartsWith(text, prefix) ==
    Len(text) >= Len(prefix) /\ SubSeq(text, 1, Len(prefix)) = prefix

\* text.split(" ", 1)[1] for a text that holds a space: what follows the first space.
AfterFirstSpace(text) ==
    LET at == CHOOSE i \in 1..Len(text) : text[i] = " " /\ \A j \in 1..(i - 1) : text[j] # " "
    IN  SubSeq(text, at + 1, Len(text))

ModePrefix == <<"m", "o", "d", "e", " ">>
QuitText == <<"q", "u", "i", "t">>
EXPORTER == <<"e", "x", "p", "o", "r", "t", "e", "r">>
IMPORTER == <<"i", "m", "p", "o", "r", "t", "e", "r">>
INVESTOR == <<"i", "n", "v", "e", "s", "t", "o", "r">>
ADMIN == <<"a", "d", "m", "i", "n">>

SYSTEM_PROMPT_EXPORTER == "CURRENT MODE: EXPORTER"
SYSTEM_PROMPT_IMPORTER == "CURRENT MODE: IMPORTER"
SYSTEM_PROMPT_INVESTOR == "CURRENT MODE: INVESTOR"
SYSTEM_PROMPT_ADMIN == "CURRENT MODE: ADMIN"

\* The schemas of vabble_tools_v2, as the function names they list, in order.
TOOLS_SCHEMA_V1 ==
    << "register_invoice", "allocate_shares", "registry_register", "set_status",
       "settle_invoice", "query_invoice_status" >>
TOOLS_SCHEMA_EXPORTER ==
    << "register_exporter_profile", "get_exporter_profile", "check_exporter_registered",
       "link_exporter_invoice", "exporter_create_invoice_request" >>
TOOLS_SCHEMA_IMPORTER ==
    << "register_importer_profile", "register_importer_terms", "confirm_payable",
       "get_importer_terms", "check_importer_registered" >>
TOOLS_SCHEMA == TOOLS_SCHEMA_V1 \o TOOLS_SCHEMA_EXPORTER \o TOOLS_SCHEMA_IMPORTER

TOOL_MAP_V2 == { TOOLS_SCHEMA[i] : i \in 1..Len(TOOLS_SCHEMA) }

EXPORTER_TOOLS ==
    { "register_exporter_profile", "get_exporter_profile", "check_exporter_registered",
      "link_exporter_invoice", "exporter_create_invoice_request", "query_invoice_status" }
IMPORTER_TOOLS ==
    { "register_importer_profile", "check_importer_registered", "register_importer_terms",
      "confirm_payable", "get_importer_terms", "query_invoice_status" }
INVESTOR_TOOLS ==
    { "allocate_shares", "query_invoice_status", "settle_invoice", "get_importer_terms" }
ADMIN_TOOLS == TOOL_MAP_V2

InTools(names, tool) == tool \in names

FilterSchema(names) == SelectSeq(TOOLS_SCHEMA, LAMBDA tool : InTools(names, tool))

ModeConfig(system_prompt, tools) == [system_prompt |-> system_prompt, tools |-> tools]

GetModeConfigAlwaysAdmin(mode) == ModeConfig(SYSTEM_PROMPT_ADMIN, TOOLS_SCHEMA)

get_mode_config(mode) ==
    IF mode = EXPORTER THEN ModeConfig(SYSTEM_PROMPT_EXPORTER, TOOLS_SCHEMA_EXPORTER)
    ELSE IF mode = IMPORTER THEN ModeConfig(SYSTEM_PROMPT_IMPORTER, FilterSchema(IMPORTER_TOOLS))
    ELSE IF mode = INVESTOR THEN ModeConfig(SYSTEM_PROMPT_INVESTOR, FilterSchema(INVESTOR_TOOLS))
    ELSE ModeConfig(SYSTEM_PROMPT_ADMIN, TOOLS_SCHEMA)

SwitchableModes == { EXPORTER, IMPORTER, INVESTOR, ADMIN }

\* The modes the command line starts the agent in.
StartModes == { EXPORTER, INVESTOR, ADMIN }

MaxAgentMessages == 4

\* Lines typed at the prompt, before run_agent strips them.
AgentInputs ==
    { <<"m", "o", "d", "e", " ", "a", "d", "m", "i", "n">>,
      <<"M", "o", "d", "e", " ", "I", "n", "v", "e", "s", "t", "o", "r">>,
      <<"m", "o", "d", "e", " ", " ", "i", "m", "p", "o", "r", "t", "e", "r">>,
      <<"m", "o", "d", "e", " ", "e", "x", "p", "o", "r", "t", "e", "r">>,
      <<" ", "M", "O", "D", "E", " ", "A", "D", "M", "I", "N", " ">>,
      <<"m", "o", "d", "e", " ", "b", "a", "n", "k", "e", "r">>,
      <<"m", "o", "d", "e", " ", "a", "d", "m", "i", "n", " ", "n", "o", "w">>,
      <<"m", "o", "d", "e">>,
      <<"q", "u", "i", "t">>,
      <<>>,
      <<"l", "i", "s", "t", " ", "m", "y", " ", "i", "n", "v", "o", "i", "c", "e", "s">> }
Interrupt == <<"^", "D">>

\* What call_llm returns: an error envelope, or a message with content and
\* tool calls.
LlmResponses ==
    [error : BOOLEAN, content : {"", "Registered."},
     tool_calls : { NoToolCalls,
                    << [name |-> "query_invoice_status", arguments |-> "{\"invoice_id\": \"INV-1001\"}"] >>,
                    << [name |-> "get_invoice", arguments |-> NotJson] >> }]

\* The second call's reply is read for its content only.
FinalResponses == { response \in LlmResponses : response.tool_calls = NoToolCalls }

NoResponse == [error |-> TRUE, content |-> "", tool_calls |-> NoToolCalls]

\* execute_tool_call: a name outside TOOL_MAP gives an error envelope, any
\* exception of the tool too.
execute_tool_call(name, result) ==
    IF name \notin TOOL_MAP_V2 THEN "{\"error\": \"Unknown tool\"}" ELSE result

\* process_tool_calls: one tool-role result per call, in order.
process_tool_calls(tool_calls, result) ==
    [i \in 1..Len(tool_calls) |->
        ToolMessage(i, tool_calls[i].name, execute_tool_call(tool_calls[i].name, result))]

AgentTurn(user_input, llm_calls) == [user_input |-> user_input, llm_calls |-> llm_calls]

NoAgentTurn == AgentTurn(<<>>, 0)

AgentQuiet ==
    /\ agentMode = EXPORTER
    /\ agentTools = get_mode_config(EXPORTER).tools
    /\ agentMessages = << Message("system", get_mode_config(EXPORTER).system_prompt) >>
    /\ agentRunning = TRUE
    /\ agentLast = NoAgentTurn

AgentInit ==
    /\ agentMode \in StartModes
    /\ agentTools = get_mode_config(agentMode).tools
    /\ agentMessages = << Message("system", get_mode_config(agentMode).system_prompt) >>
    /\ agentRunning = TRUE
    /\ agentLast = NoAgentTurn

IsModeCommand(user_input) == StartsWith(Lower(user_input), ModePrefix)

NewMode(user_input) == Lower(Strip(AfterFirstSpace(user_input)))

WithContent(messages, content) ==
    IF content # "" THEN Append(messages, Message("assistant", content)) ELSE messages

\* One pass of the while loop for a line that was read.
run_agent_turn(line, response, result, final_response) ==
    LET user_input == Strip(line)
        asked == Append(agentMessages, Message("user", user_input))
        message == response
    IN
    IF line = Interrupt \/ Lower(user_input) = QuitText
    THEN /\ agentRunning' = FALSE
         /\ UNCHANGED <<agentMode, agentTools, agentMessages>>
         /\ agentLast' = AgentTurn(line, 0)
    ELSE
    /\ agentRunning' = TRUE
    /\ IF user_input = <<>>
       THEN /\ UNCHANGED <<agentMode, agentTools, agentMessages>>
            /\ agentLast' = AgentTurn(line, 0)
       ELSE IF IsModeCommand(user_input)
       THEN /\ agentLast' = AgentTurn(line, 0)
            /\ IF NewMode(user_input) \in SwitchableModes
               THEN /\ agentMode' = NewMode(user_input)
                    /\ agentTools' = get_mode_config(NewMode(user_input)).tools
                    /\ agentMessages' =
                          << Message("system", get_mode_config(NewMode(user_input)).system_prompt) >>
               ELSE UNCHANGED <<agentMode, agentTools, agentMessages>>
       ELSE /\ UNCHANGED <<agentMode, agentTools>>
            /\ IF response.error
               THEN /\ agentMessages' = asked
                    /\ agentLast' = AgentTurn(line, 1)
               ELSE IF message.tool_calls # NoToolCalls
               THEN /\ agentMessages' =
                          WithContent(Append(asked, ResponseMessage(message.tool_calls))
                                         \o process_tool_calls(message.tool_calls, result),
                                      IF final_response.error THEN "" ELSE final_response.content)
                    /\ agentLast' = AgentTurn(line, 2)
               ELSE /\ agentMessages' = WithContent(asked, message.content)
                    /\ agentLast' = AgentTurn(line, 1)

\* The lines that get as far as call_llm: the model's replies are drawn for
\* these only.
ReachesModel(line) ==
    /\ line # Interrupt
    /\ Strip(line) # <<>>
    /\ Lower(Strip(line)) # QuitText
    /\ ~IsModeCommand(Strip(line))

AgentFrame == UNCHANGED <<shareVars, regVars, onbVars, baseVars, demoVars, termsVars, feeVars,
                          ddVars, riskVars, cliVars, iaVars, chatVars, toolVars, ssVars, erVars, listVars, calVars>>

AgentStep ==
    /\ AgentFrame
    /\ agentRunning
    /\ \E line \in AgentInputs \cup {Interrupt} :
          IF ReachesModel(line)
          THEN /\ Len(agentMessages) < MaxAgentMessages
               /\ \E response \in LlmResponses, result \in ToolResults,
                     final_response \in FinalResponses :
                     run_agent_turn(line, response, result, final_response)
          ELSE run_agent_turn(line, NoResponse, "", NoResponse)

AgentNext == AgentStep

\* ------------------------------------------------------------ HTTP tools
\* scripts/agent/vabble_tools.py and vabble_tools_v2.py: every tool builds a
\* URL under BACKEND_URL (and a payload for POST), prints a line, and inside
\* one try block sends the request and decodes the reply.
Tool(module, name, method, path) ==
    [module |-> module, name |-> name, method |-> method, path |-> path]

CoreTools(module) ==
    { Tool(module, "register_invoice", "POST", "/invoice/register"),
      Tool(module, "allocate_shares", "POST", "/investor/allocate"),
      Tool(module, "registry_register", "POST", "/registry/register"),
      Tool(module, "set_status", "POST", "/registry/status"),
      Tool(module, "settle_invoice", "POST", "/settlement/run"),
      Tool(module, "query_invoice_status", "GET", "/registry/status/{invoice_id}") }

ExporterModeTools ==
    { Tool("vabble_tools_v2", "register_exporter_profile", "POST", "/exporter/profile"),
      Tool("vabble_tools_v2", "get_exporter_profile", "GET", "/exporter/profile/{exporter_id}"),
      Tool("vabble_tools_v2", "check_exporter_registered", "GET", "/exporter/check/{exporter_id}"),
      Tool("vabble_tools_v2", "link_exporter_invoice", "POST", "/exporter/invoice-link"),
      Tool("vabble_tools_v2", "exporter_create_invoice_request", "POST", "/exporter/invoice-request") }

ImporterModeTools ==
    { Tool("vabble_tools_v2", "register_importer_profile", "POST", "/importer/profile"),
      Tool("vabble_tools_v2", "register_importer_terms", "POST", "/importer/terms"),
      Tool("vabble_tools_v2", "confirm_payable", "POST", "/importer/confirm"),
      Tool("vabble_tools_v2", "get_importer_terms", "GET", "/importer/terms/{invoice_id}"),
      Tool("vabble_tools_v2", "check_importer_registered", "GET", "/importer/check/{importer_id}") }

HttpTools ==
    CoreTools("vabble_tools") \cup CoreTools("vabble_tools_v2")
        \cup ExporterModeTools \cup ImporterModeTools

\* What the network does with one request: a reply whose body is JSON (with
\* any status code), a reply whose body is not JSON, or no reply at all.
HttpReply(kind, text) == [kind |-> kind, text |-> text]

HttpOutcomes ==
    { HttpReply("json", "{\"success\": true, \"txid\": \"0xabc\"}"),
      HttpReply("json", "{\"success\": false}"),
      HttpReply("not json", "<html>502 Bad Gateway</html>"),
      HttpReply("ConnectionError", "Connection refused"),
      HttpReply("Timeout", "Read timed out") }

ToolReturned(value) == [raised |-> FALSE, value |-> value]
ToolRaised(error) == [raised |-> TRUE, value |-> error]
ErrorEnvelope(message) == "{\"error\": \"" \o message \o "\"}"

\* A variant that decodes the reply after the try block.
TryRequestDecodingOutside(reply) ==
    IF reply.kind = "json" THEN ToolReturned(reply.text)
    ELSE IF reply.kind = "not json" THEN ToolRaised("JSONDecodeError")
    ELSE ToolReturned(ErrorEnvelope(reply.text))

\* try: resp = requests.post/get(...); return resp.json()
\* except Exception as e: return {"error": str(e)}
TryRequest(reply) ==
    IF reply.kind = "json" THEN ToolReturned(reply.text)
    ELSE IF reply.kind = "not json" THEN ToolReturned(ErrorEnvelope("Expecting value"))
    ELSE ToolReturned(ErrorEnvelope(reply.text))

ToolRun(tool, reply, requests, ended) ==
    [tool |-> tool, reply |-> reply, requests |-> requests, ended |-> ended]

NoTool == Tool("", "", "", "")
NoToolRun == ToolRun(NoTool, HttpReply("", ""), <<>>, ToolReturned(""))

ToolInit == toolLast = NoToolRun

http_tool(tool, reply) ==
    toolLast' = ToolRun(tool, reply, << [method |-> tool.method, path |-> tool.path] >>,
                        TryRequest(reply))

ToolFrame == UNCHANGED <<shareVars, regVars, onbVars, baseVars, demoVars, termsVars, feeVars,
                         ddVars, riskVars, cliVars, iaVars, chatVars, agentVars, ssVars, erVars, listVars, calVars>>

CallTool ==
    /\ ToolFrame
    /\ \E tool \in HttpTools, reply \in HttpOutcomes : http_tool(tool, reply)

ToolNext == CallTool

\* --------------------------------------------------------- SimpleStorage
\* contracts/SimpleStorage.py. Keys are strings; a stored string is its bytes,
\* a stored integer its little-endian bytes.
COUNTER_KEY == "counter"

MaxIncrements == 3

SSKeys == { "", "note", COUNTER_KEY }
SSValues == { <<>>, <<7>>, <<104, 105>> }

SSCall(op, key, value, ok, out, n) ==
    [op |-> op, key |-> key, value |-> value, ok |-> ok, out |-> out, n |-> n]

SSInit ==
    /\ ssStore = <<>>
    /\ ssIncrements = 0
    /\ ssLast = SSCall("none", "", <<>>, FALSE, <<>>, 0)

ss_counter(store) == BytesInt(StorageGet(store, COUNTER_KEY))

ss_store(key, value) ==
    IF key = ""
    THEN /\ ssStore' = ssStore
         /\ ssLast' = SSCall("store", key, value, FALSE, <<>>, 0)
    ELSE /\ ssStore' = StoragePut(ssStore, key, value)
         /\ ssLast' = SSCall("store", key, value, TRUE, <<>>, 0)

ss_retrieve(key) ==
    /\ ssStore' = ssStore
    /\ ssLast' = SSCall("retrieve", key, <<>>, TRUE, StorageGet(ssStore, key), 0)

ss_increment ==
    LET current == BytesInt(StorageGet(ssStore, COUNTER_KEY))
        new == current + 1
    IN  /\ ssStore' = StoragePut(ssStore, COUNTER_KEY, IntBytes(new))
        /\ ssLast' = SSCall("increment", "", <<>>, TRUE, <<>>, new)

SSFrame == UNCHANGED <<shareVars, regVars, onbVars, baseVars, demoVars, termsVars, feeVars,
                       ddVars, riskVars, cliVars, iaVars, chatVars, agentVars, toolVars, erVars, listVars, calVars>>

SSStore ==
    /\ SSFrame
    /\ ssIncrements' = ssIncrements
    /\ \E key \in SSKeys, value \in SSValues : ss_store(key, value)

SSRetrieve ==
    /\ SSFrame
    /\ ssIncrements' = ssIncrements
    /\ \E key \in SSKeys : ss_retrieve(key)

SSIncrement ==
    /\ SSFrame
    /\ ssIncrements < MaxIncrements
    /\ ssIncrements' = ssIncrements + 1
    /\ ss_increment

SSCounter ==
    /\ SSFrame
    /\ ssIncrements' = ssIncrements
    /\ ssStore' = ssStore
    /\ ssLast' = SSCall("counter", "", <<>>, TRUE, <<>>, ss_counter(ssStore))

SSNext == SSStore \/ SSRetrieve \/ SSIncrement \/ SSCounter

\* ------------------------------------------------------ ExporterRegistry
\* contracts/ExporterRegistry.py
PROFILE_PREFIX == "exp:profile:"
LINK_PREFIX == "exp:link:"

\* Identifiers are byte strings; some hold the ':' the link key is built with.
ERExporterIds == { <<"a">>, <<"a", ":", "b">> }
ERInvoiceIds == { <<"c">>, <<"b", ":", "c">> }
ERCompanies == { <<"A", "c", "m", "e">>, <<>> }
ERCountries == { <<"V", "E">> }
ERSectors == { <<"c", "a", "c", "a", "o">> }

er_profile_key(exporter_id) == <<PROFILE_PREFIX>> \o exporter_id
er_link_key(exporter_id, invoice_id) == <<LINK_PREFIX>> \o exporter_id \o <<":">> \o invoice_id

er_profile_data(company_name, country, sector) ==
    company_name \o <<"|">> \o country \o <<"|">> \o sector

er_get_profile(store, exporter_id) == StorageGet(store, er_profile_key(exporter_id))

er_is_registered(store, exporter_id) == Len(StorageGet(store, er_profile_key(exporter_id))) > 0

er_is_invoice_linked(store, exporter_id, invoice_id) ==
    Len(StorageGet(store, er_link_key(exporter_id, invoice_id))) > 0

ERCall(op, exporter_id, invoice_id, ret) ==
    [op |-> op, exporter_id |-> exporter_id, invoice_id |-> invoice_id, ret |-> ret]

ERInit ==
    /\ erStore = <<>>
    /\ erLast = ERCall("none", <<>>, <<>>, FALSE)
    /\ erProfiles = {}
    /\ erLinked = {}

er_register_profile(exporter_id, company_name, country, sector) ==
    IF Len(StorageGet(erStore, er_profile_key(exporter_id))) > 0
    THEN /\ erStore' = erStore
         /\ erProfiles' = erProfiles
         /\ erLast' = ERCall("register_profile", exporter_id, <<>>, FALSE)
    ELSE /\ erStore' = StoragePut(erStore, er_profile_key(exporter_id),
                                  er_profile_data(company_name, country, sector))
         /\ erProfiles' = erProfiles \cup {exporter_id}
         /\ erLast' = ERCall("register_profile", exporter_id, <<>>, TRUE)

er_update_profile(exporter_id, company_name, country, sector) ==
    IF Len(StorageGet(erStore, er_profile_key(exporter_id))) = 0
    THEN /\ erStore' = erStore
         /\ erLast' = ERCall("update_profile", exporter_id, <<>>, FALSE)
    ELSE /\ erStore' = StoragePut(erStore, er_profile_key(exporter_id),
                                  er_profile_data(company_name, country, sector))
         /\ erLast' = ERCall("update_profile", exporter_id, <<>>, TRUE)

er_link_invoice(exporter_id, invoice_id) ==
    IF Len(StorageGet(erStore, er_profile_key(exporter_id))) = 0
    THEN /\ erStore' = erStore
         /\ erLinked' = erLinked
         /\ erLast' = ERCall("link_invoice", exporter_id, invoice_id, FALSE)
    ELSE /\ erStore' = StoragePut(erStore, er_link_key(exporter_id, invoice_id), <<"1">>)
         /\ erLinked' = erLinked \cup { <<exporter_id, invoice_id>> }
         /\ erLast' = ERCall("link_invoice", exporter_id, invoice_id, TRUE)

ERFrame == UNCHANGED <<shareVars, regVars, onbVars, baseVars, demoVars, termsVars, feeVars,
                       ddVars, riskVars, cliVars, iaVars, chatVars, agentVars, toolVars, ssVars, listVars, calVars>>

ERRegisterProfile ==
    /\ ERFrame
    /\ erLinked' = erLinked
    /\ \E exporter_id \in ERExporterIds, company_name \in ERCompanies, country \in ERCountries,
          sector \in ERSectors :
          er_register_profile(exporter_id, company_name, country, sector)

ERUpdateProfile ==
    /\ ERFrame
    /\ erLinked' = erLinked
    /\ erProfiles' = erProfiles
    /\ \E exporter_id \in ERExporterIds, company_name \in ERCompanies, country \in ERCountries,
          sector \in ERSectors :
          er_update_profile(exporter_id, company_name, country, sector)

ERLinkInvoice ==
    /\ ERFrame
    /\ erProfiles' = erProfiles
    /\ \E exporter_id \in ERExporterIds, invoice_id \in ERInvoiceIds :
          er_link_invoice(exporter_id, invoice_id)

ERNext == ERRegisterProfile \/ ERUpdateProfile \/ ERLinkInvoice

\* --------------------------------------------- ListingAgent._hash_metadata
\* agents/listing_agent.py. A metadata dictionary is the sequence of its
\* (key, value) items in insertion order, with distinct keys; a value is a
\* string, an integer or a dictionary of strings.
JsonValue(kind, text, items) == [kind |-> kind, text |-> text, items |-> items]

StrValue(text) == JsonValue("str", text, <<>>)
IntValue(text) == JsonValue("int", text, <<>>)
DictValue(items) == JsonValue("dict", "", items)

\* The keys in use, in the order sorted() puts them.
SortedKeys == << "address", "amount", "buyer", "city", "zip" >>

KeyRank(key) == CHOOSE i \in 1..Len(SortedKeys) : SortedKeys[i] = key

\* sorted(items) by key: insertion sort.
RECURSIVE InsertByKey(_, _)
InsertByKey(item, sorted) ==
    IF sorted = <<>> THEN <<item>>
    ELSE IF KeyRank(item[1]) <= KeyRank(Head(sorted)[1]) THEN <<item>> \o sorted
    ELSE <<Head(sorted)>> \o InsertByKey(item, Tail(sorted))

RECURSIVE SortByKey(_)
SortByKey(items) ==
    IF items = <<>> THEN <<>> ELSE InsertByKey(Head(items), SortByKey(Tail(items)))

InsertionOrder(items) == items

\* The text of a dictionary of strings whose items are in the order given.
RECURSIVE DumpStrItems(_)
DumpStrItems(items) ==
    IF items = <<>> THEN <<>>
    ELSE <<"\"", items[1][1], "\"", ": ", "\"", items[1][2], "\"">>
            \o (IF Len(items) > 1 THEN <<", ">> ELSE <<>>)
            \o DumpStrItems(Tail(items))

\* json.dumps(value, sort_keys=True) for one value; the order of a nested
\* dictionary's items is sorted as well.
DumpValue(value) ==
    IF value.kind = "str" THEN <<"\"", value.text, "\"">>
    ELSE IF value.kind = "int" THEN <<value.text>>
    ELSE <<"{">> \o DumpStrItems(SortByKey(value.items)) \o <<"}">>

RECURSIVE DumpItems(_)
DumpItems(items) ==
    IF items = <<>> THEN <<>>
    ELSE <<"\"", items[1][1], "\"", ": ">> \o DumpValue(items[1][2])
            \o (IF Len(items) > 1 THEN <<", ">> ELSE <<>>)
            \o DumpItems(Tail(items))

\* A serialisation that keeps the insertion order of the top-level items.
JsonDumpsInsertionOrder(metadata) == <<"{">> \o DumpItems(InsertionOrder(metadata)) \o <<"}">>

\* json.dumps(metadata, sort_keys=True)
json_dumps(metadata) == <<"{">> \o DumpItems(SortByKey(metadata)) \o <<"}">>

\* SHA-256 of the UTF-8 text, as an opaque digest of exactly that text.
Sha256Hex(text) == <<"sha256">> \o text

_hash_metadata(metadata) == Sha256Hex(json_dumps(metadata))

Addresses ==
    { DictValue(<< <<"city", "Lima">>, <<"zip", "15001">> >>),
      DictValue(<< <<"zip", "15001">>, <<"city", "Lima">> >>) }

ListItems ==
    { <<"buyer", StrValue("ACME")>>, <<"amount", IntValue("1000")>>,
      <<"amount", IntValue("2000")>> }
        \cup { <<"address", address>> : address \in Addresses }

MaxMetadataItems == 3

\* Sequences of items with pairwise distinct keys.
ListMetadata ==
    { metadata \in UNION { [1..n -> ListItems] : n \in 0..MaxMetadataItems } :
        \A i, j \in 1..Len(metadata) : i # j => metadata[i][1] # metadata[j][1] }

\* a and b are the mappings of the call before the last and of the last call.
\* Before the first call both stand for the empty mapping.
ListInit ==
    listLast = [a |-> <<>>, hash_a |-> _hash_metadata(<<>>),
                b |-> <<>>, hash_b |-> _hash_metadata(<<>>)]

ListFrame == UNCHANGED <<shareVars, regVars, onbVars, baseVars, demoVars, termsVars, feeVars,
                         ddVars, riskVars, cliVars, iaVars, chatVars, agentVars, toolVars, ssVars,
                         erVars, calVars>>

HashMetadata ==
    /\ ListFrame
    /\ \E metadata \in ListMetadata :
          listLast' = [a |-> listLast.b, hash_a |-> listLast.hash_b,
                       b |-> metadata, hash_b |-> _hash_metadata(metadata)]

ListNext == HashMetadata

\* ------------------------------------------- ListingAgent.create_and_list
HexDigits ==
    { "0", "1", "2", "3", "4", "5", "6", "7", "8", "9", "a", "b", "c", "d", "e", "f" }

\* seller.replace('0x', ''): every occurrence, left to right, without rescanning.
RECURSIVE Replace0x(_)
Replace0x(text) ==
    IF Len(text) < 2 THEN text
    ELSE IF text[1] = "0" /\ text[2] = "x" THEN Replace0x(SubSeq(text, 3, Len(text)))
    ELSE <<text[1]>> \o Replace0x(Tail(text))

\* bytes.fromhex accepts pairs of hexadecimal digits of either case.
IsHex(text) ==
    /\ Len(text) % 2 = 0
    /\ \A i \in 1..Len(text) : LowerChar(text[i]) \in HexDigits

\* bytes.fromhex(text): one byte per pair of digits.
FromHex(text) == [i \in 1..(Len(text) \div 2) |-> <<LowerChar(text[2*i - 1]), LowerChar(text[2*i])>>]

StrSeller(text) == [kind |-> "str", text |-> text]
BytesSeller(bytes) == [kind |-> "bytes", text |-> bytes]

\* The outcome of one agent operation: the contract invocations made, in
\* order, and the dictionary returned or the exception raised.  A dictionary
\* without a key holds Absent for it.
CalResult(outcome, success, tx_hash, create_tx, list_tx, message, error) ==
    [outcome |-> outcome, success |-> success, tx_hash |-> tx_hash, create_tx |-> create_tx,
     list_tx |-> list_tx, message |-> message, error |-> error]

FromInvoke(res) ==
    CalResult(res.outcome, res.success, res.tx_hash, Absent, Absent, res.message, res.error)

Invocation(operation, args) == [operation |-> operation, args |-> args]

create_invoice(agent, hash, invoice_id, seller, amount, due_date, metadata) ==
    LET metadata_hash == _hash_metadata(metadata)
        hex == Replace0x(seller.text)
        seller_bytes == IF seller.kind = "str" THEN FromHex(hex) ELSE seller.text
        args == <<invoice_id, seller_bytes, amount, due_date, metadata_hash>>
    IN  IF seller.kind = "str" /\ ~IsHex(hex)
        THEN [calls |-> <<>>,
              res |-> FromInvoke(Raised("ValueError: non-hexadecimal number found in fromhex()"))]
        ELSE [calls |-> << Invocation("create_invoice", args) >>,
              res |-> FromInvoke(invoke_contract(agent, hash, "create_invoice", args, None))]

list_invoice(agent, hash, invoice_id, yield, risk) ==
    LET args == <<invoice_id, yield, risk>>
    IN  [calls |-> << Invocation("list_invoice", args) >>,
         res |-> FromInvoke(invoke_contract(agent, hash, "list_invoice", args, None))]

NotReached == FromInvoke(Raised("(not reached)"))

CalOutcome(calls, create_result, list_result, res) ==
    [calls |-> calls, create_result |-> create_result, list_result |-> list_result, res |-> res]

\* A composition that lists first and creates afterwards.
CreateAndListListingFirst(agent, hash, invoice_id, seller, amount, due_date, metadata, yield, risk) ==
    LET l == list_invoice(agent, hash, invoice_id, yield, risk)
        c == create_invoice(agent, hash, invoice_id, seller, amount, due_date, metadata)
    IN  IF l.res.outcome = "raised" THEN CalOutcome(l.calls, NotReached, l.res, l.res)
        ELSE IF c.res.outcome = "raised" THEN CalOutcome(l.calls \o c.calls, c.res, l.res, c.res)
        ELSE CalOutcome(l.calls \o c.calls, c.res, l.res,
                        CalResult("returned", c.res.success /\ l.res.success, Absent,
                                  c.res.tx_hash, l.res.tx_hash,
                                  "Invoice created and listed successfully", ""))

create_and_list(agent, hash, invoice_id, seller, amount, due_date, metadata, yield, risk) ==
    LET c == create_invoice(agent, hash, invoice_id, seller, amount, due_date, metadata)
        l == list_invoice(agent, hash, invoice_id, yield, risk)
    IN  IF c.res.outcome = "raised" THEN CalOutcome(c.calls, c.res, NotReached, c.res)
        ELSE IF ~c.res.success THEN CalOutcome(c.calls, c.res, NotReached, c.res)
        ELSE IF l.res.outcome = "raised" THEN CalOutcome(c.calls \o l.calls, c.res, l.res, l.res)
        ELSE CalOutcome(c.calls \o l.calls, c.res, l.res,
                        CalResult("returned", c.res.success /\ l.res.success, Absent,
                                  c.res.tx_hash, l.res.tx_hash,
                                  "Invoice created and listed successfully", ""))

CalInvoiceIds == { "INV001", "INV002" }
CalSellers ==
    { StrSeller(<<"0", "x", "A", "b", "1", "2">>), StrSeller(<<"a", "b", "1", "2">>),
      StrSeller(<<"N", "x", "y", "z">>), StrSeller(<<"a", "b", "c">>),
      BytesSeller(<< <<"a", "b">>, <<"1", "2">> >>) }
CalMetadata == { <<>>, << <<"buyer", StrValue("ACME")>> >> }
CalYields == { 0, 850 }
CalRisks == { 1, 5 }
CalAmounts == { 500000 }
CalDueDates == { 1767225600 }

CalCall(hash, invoice_id, seller, metadata, yield, risk, out) ==
    [op |-> "create_and_list", hash |-> hash, invoice_id |-> invoice_id, seller |-> seller,
     metadata |-> metadata, yield |-> yield, risk |-> risk, out |-> out]

NoCalCall ==
    [op |-> "none", hash |-> "", invoice_id |-> "", seller |-> BytesSeller(<<>>),
     metadata |-> <<>>, yield |-> 0, risk |-> 0,
     out |-> CalOutcome(<<>>, NotReached, NotReached, NotReached)]

CalInit == calLast = NoCalCall

CalFrame == UNCHANGED <<shareVars, regVars, onbVars, demoVars, termsVars, feeVars, ddVars,
                        riskVars, cliVars, iaVars, chatVars, agentVars, toolVars, ssVars, erVars,
                        listVars>>

\* The agent's fields are those of the BaseAgent it extends.
CreateAndList ==
    /\ CalFrame
    /\ baseAgent' = baseAgent
    /\ baseLast' = baseLast
    /\ \E h \in BaseHashes, i \in CalInvoiceIds, s \in CalSellers, m \in CalMetadata,
          y \in CalYields, r \in CalRisks, amount \in CalAmounts, due_date \in CalDueDates :
          calLast' = CalCall(h, i, s, m, y, r,
                             create_and_list(baseAgent, h, i, s, amount, due_date, m, y, r))

CalNext == CreateAndList

Init == ShareInit /\ RegInit /\ OnbQuiet /\ BaseQuiet /\ DemoQuiet /\ TermsInit /\ FeeInit /\ DDInit /\ RiskInit /\ CliInit /\ IAInit /\ ChatInit /\ AgentQuiet /\ ToolInit /\ SSInit /\ ERInit /\ ListInit /\ CalInit

SpecShare == Init /\ [][ShareNext]_vars

SpecRegistry == Init /\ [][RegNext]_vars

InitOnboarding == ShareInit /\ RegInit /\ OnbInit /\ BaseQuiet /\ DemoQuiet /\ TermsInit /\ FeeInit /\ DDInit /\ RiskInit /\ CliInit /\ IAInit /\ ChatInit /\ AgentQuiet /\ ToolInit /\ SSInit /\ ERInit /\ ListInit /\ CalInit

SpecOnboarding == InitOnboarding /\ [][OnbNext]_vars

InitBase == ShareInit /\ RegInit /\ OnbQuiet /\ BaseInit /\ DemoQuiet /\ TermsInit /\ FeeInit /\ DDInit /\ RiskInit /\ CliInit /\ IAInit /\ ChatInit /\ AgentQuiet /\ ToolInit /\ SSInit /\ ERInit /\ ListInit /\ CalInit

SpecBase == InitBase /\ [][BaseNext]_vars

InitDemo == ShareInit /\ RegInit /\ OnbInit /\ BaseQuiet /\ DemoInit /\ TermsInit /\ FeeInit /\ DDInit /\ RiskInit /\ CliInit /\ IAInit /\ ChatInit /\ AgentQuiet /\ ToolInit /\ SSInit /\ ERInit /\ ListInit /\ CalInit

SpecDemo == InitDemo /\ [][DemoNext]_vars

SpecTerms == Init /\ [][TermsNext]_vars

SpecFee == Init /\ [][FeeNext]_vars

SpecDD == Init /\ [][DDNext]_vars

SpecRisk == Init /\ [][RiskNext]_vars

SpecCli == InitDemo /\ [][CliNext]_vars

SpecInvoiceAsset == Init /\ [][IANext]_vars

SpecChat == Init /\ [][ChatNext]_vars

InitAgent == ShareInit /\ RegInit /\ OnbQuiet /\ BaseQuiet /\ DemoQuiet /\ TermsInit /\ FeeInit /\ DDInit /\ RiskInit /\ CliInit /\ IAInit /\ ChatInit /\ AgentInit /\ ToolInit /\ SSInit /\ ERInit /\ ListInit /\ CalInit

SpecAgent == InitAgent /\ [][AgentNext]_vars

SpecTools == Init /\ [][ToolNext]_vars

SpecSimpleStorage == Init /\ [][SSNext]_vars

SpecExporterRegistry == Init /\ [][ERNext]_vars

SpecListing == Init /\ [][ListNext]_vars

SpecCreateAndList == InitBase /\ [][CalNext]_vars

\* ------------------------------------------------------------- claims
RECURSIVE SumOver(_, _)
SumOver(S, f) ==
    IF S = {} THEN 0
    ELSE LET x == CHOOSE y \in S : TRUE IN f[x] + SumOver(S \ {x}, f)

SumAllocated(invoice_id) ==
    SumOver(ShareInvestorIds, [v \in ShareInvestorIds |-> ShareAllocated(shareStore, invoice_id, v)])

SumRedeemed(invoice_id) ==
    SumOver(ShareInvestorIds, [v \in ShareInvestorIds |-> ShareRedeemedAmt(shareStore, invoice_id, v)])

\* C1: after every call, for every invoice, the per-investor allocated amounts
\* sum to total_allocated(invoice) and the per-investor redeemed amounts sum
\* to total_claimed(invoice).
C1_Conservation ==
    \A i \in ShareInvoiceIds :
        /\ SumAllocated(i) = total_allocated(shareStore, i)
        /\ SumRedeemed(i) = total_claimed(shareStore, i)

\* C2: for every (invoice, investor) pair the redeemed amount never exceeds the
\* allocated amount, so get_share's available field is never negative.
C2_RedeemedAtMostAllocated ==
    \A i \in ShareInvoiceIds, v \in ShareInvestorIds :
        /\ ShareRedeemedAmt(shareStore, i, v) <= ShareAllocated(shareStore, i, v)
        /\ ShareAvailable(shareStore, i, v) >= 0

\* C2's case: after an accepted transfer, the sender is fully redeemed.
C2_Witness ==
    /\ shareLast.op = "transfer"
    /\ shareLast.ret
    /\ ShareRedeemedAmt(shareStore, shareLast.invoice_id, shareLast.from) > 0
    /\ ShareAvailable(shareStore, shareLast.invoice_id, shareLast.from) = 0

SharePairUnchanged(invoice_id, investor) ==
    /\ ShareAllocated(shareStore', invoice_id, investor) = ShareAllocated(shareStore, invoice_id, investor)
    /\ ShareRedeemedAmt(shareStore', invoice_id, investor) = ShareRedeemedAmt(shareStore, invoice_id, investor)

\* C3: a transfer whose amount exceeds the sender's unredeemed balance returns
\* false and leaves allocated and redeemed of sender and receiver unchanged.
C3_TransferRejectsOverdraw ==
    [][ (/\ shareLast'.op = "transfer"
         /\ shareLast'.amount > ShareAvailable(shareStore, shareLast'.invoice_id, shareLast'.from))
        => (/\ shareLast'.ret = FALSE
            /\ SharePairUnchanged(shareLast'.invoice_id, shareLast'.from)
            /\ SharePairUnchanged(shareLast'.invoice_id, shareLast'.to)) ]_vars

\* C3's case: the sender holds enough allocation but has redeemed part of it,
\* and the transfer of more than the rest was rejected.
C3_Witness ==
    /\ shareLast.op = "transfer"
    /\ ~shareLast.ret
    /\ ShareRedeemedAmt(shareStore, shareLast.invoice_id, shareLast.from) > 0
    /\ shareLast.amount <= ShareAllocated(shareStore, shareLast.invoice_id, shareLast.from)
    /\ shareLast.amount > ShareAvailable(shareStore, shareLast.invoice_id, shareLast.from)

RegLive(st) == st = Str("ACTIVE") \/ st = Str("VERIFIED")

\* C4: settle(id) returns true only from ACTIVE or VERIFIED and then stores
\* SETTLED; from every other state it returns false and leaves the status
\* unchanged (so a second settle fails).
C4_SettleStateMachine ==
    [][ regLast'.op = "settle" =>
          IF RegLive(get_status(regStore, regLast'.id))
          THEN regLast'.ret = TRUE /\ get_status(regStore', regLast'.id) = Str("SETTLED")
          ELSE regLast'.ret = FALSE /\ regStore' = regStore ]_vars

\* C4's case: a settle was refused on an invoice that is already SETTLED.
C4_Witness ==
    /\ regLast.op = "settle"
    /\ ~regLast.ret
    /\ get_status(regStore, regLast.id) = Str("SETTLED")

\* C5: registering an address that already has a record in the file returns
\* success with the "already registered" message and the stored record, and
\* writes nothing, whatever name/country/type the call passes.
C5_IdempotentRegistration ==
    [][ (/\ onbLast'.phase = "begin"
         /\ onbFile.readable /\ onbFile.haskeys
         /\ onbLast'.wallet_address \in DOMAIN onbFile[onbLast'.partition])
        => (/\ onbLast'.outcome = "returned"
            /\ onbLast'.success = TRUE
            /\ onbLast'.message = AlreadyMessage(onbLast'.partition)
            /\ onbLast'.data = onbFile[onbLast'.partition][onbLast'.wallet_address]
            /\ onbFile' = onbFile
            /\ onbProc' = onbProc) ]_vars

\* C5's case: the address was registered as First/US, and a second call passing
\* Second/CA has returned the stored record, which the file still holds.
C5_Witness ==
    /\ onbLast.phase = "begin"
    /\ onbLast.outcome = "returned"
    /\ onbLast.partition = "exporters"
    /\ onbLast.args = <<"Second", "CA">>
    /\ onbLast.data = exporter_data(onbLast.wallet_address, "First", "US")
    /\ onbFile.exporters[onbLast.wallet_address] = exporter_data(onbLast.wallet_address, "First", "US")

\* Exceptions that come from the environment of the run: a participants file
\* without its partitions, an invoices file that is not JSON, a wallet address
\* that is not hexadecimal, no signing key.
DemoEnvironmentErrors ==
    { "KeyError", "JSONDecodeError",
      "ValueError: non-hexadecimal number found in fromhex()",
      "ValueError: No private key available for signing" }

\* C13: a save that returns writes the whole file from what its call loaded,
\* so every record saved by another process since that load is removed while
\* both calls return success.
C13_LostUpdate ==
    [][ (onbLast'.phase = "save" /\ onbLast'.outcome = "returned") =>
          LET me == onbProc[onbLast'.proc]
          IN  /\ onbLast'.success
              /\ onbFile' = me.participants
              /\ <<me.partition, me.wallet_address>> \in Pairs(onbFile')
              /\ onbDropped' = Pairs(onbFile) \ Pairs(me.participants)
      ]_vars

\* Two calls for different addresses have both returned success, and the file
\* holds only the record of the second: its save removed the record the first
\* had saved.
C13_Witness ==
    /\ onbLast.phase = "save"
    /\ onbLast.outcome = "returned"
    /\ onbLast.success
    /\ Pairs(onbFile) = { <<onbLast.partition, onbLast.wallet_address>> }
    /\ \E pair \in onbDropped : pair[2] # onbLast.wallet_address

\* C6: in an environment that lets the run proceed, the demo flow completes
\* every step, and its final re-read reports status SETTLED (3) and funded
\* amount 500,000.
C6_DemoEndsSettled ==
    /\ demo.pc = "crashed" => demo.error \in DemoEnvironmentErrors
    /\ demo.pc = "done" => demo.final = [status |-> 3, funded_amount |-> DemoAmount]

\* C9: confirm_payable succeeds only when terms exist for the invoice and at
\* most once per invoice; after a success is_confirmed stays true and
\* get_confirmer never changes.
C9_ConfirmOnceIrreversible ==
    [][ /\ (termsLast'.op = "confirm_payable" /\ termsLast'.ret) =>
              /\ Len(get_terms(termsStore, termsLast'.invoice_id)) > 0
              /\ termsLast'.invoice_id \notin termsSucceeded
        /\ \A invoice_id \in termsSucceeded' : is_confirmed(termsStore', invoice_id)
        /\ \A invoice_id \in termsSucceeded :
              get_confirmer(termsStore', invoice_id) = get_confirmer(termsStore, invoice_id)
      ]_vars

\* C10: record_fee aborts and leaves the fee balance unchanged whenever no
\* invoice_asset_hash is configured, the caller is not the configured identity,
\* or the amount is not positive; the balance is changed only by a record_fee
\* from that identity, a withdraw by the owner, or the initial deployment.
C10_RecordFeeGuarded ==
    [][ LET invoice_asset_hash == StorageGet(feeStore, K_INVOICE_ASSET_HASH)
            owner == StorageGet(feeStore, K_OWNER)
        IN  /\ ( /\ feeLast'.op = "record_fee"
                 /\ \/ invoice_asset_hash = EmptyBytes
                    \/ feeLast'.caller # invoice_asset_hash
                    \/ feeLast'.amount <= 0 )
                  => /\ feeLast'.outcome = "aborted"
                     /\ get_fee_balance(feeStore') = get_fee_balance(feeStore)
            /\ get_fee_balance(feeStore') # get_fee_balance(feeStore)
                  => \/ feeLast'.op = "record_fee" /\ feeLast'.caller = invoice_asset_hash
                     \/ feeLast'.op = "withdraw" /\ feeLast'.caller = owner
                     \/ feeLast'.op = "_deploy" /\ ~feeLast'.update
      ]_vars

\* A deployed contract has just aborted a record_fee of a positive amount, the
\* balance where deployment put it.
C10_Witness ==
    /\ feeDeployed
    /\ feeLast.op = "record_fee"
    /\ feeLast.amount > 0
    /\ feeLast.outcome = "aborted"
    /\ StorageGet(feeStore, K_OWNER) # EmptyBytes
    /\ get_fee_balance(feeStore) = 0

\* C11: deployment configures the InvoiceAsset identity, and a record_fee of a
\* positive amount by that identity returns and raises the fee balance by
\* exactly that amount.
C11_FeesAccumulate ==
    [][ /\ feeDeployed' => StorageGet(feeStore', K_INVOICE_ASSET_HASH) # EmptyBytes
        /\ ( /\ feeLast'.op = "record_fee"
             /\ feeLast'.caller = StorageGet(feeStore, K_INVOICE_ASSET_HASH)
             /\ feeLast'.amount > 0 )
              => /\ feeLast'.outcome = "returned"
                 /\ get_fee_balance(feeStore') = get_fee_balance(feeStore) + feeLast'.amount
      ]_vars

\* C12: withdraw returns only for the owner recorded by _deploy and a positive
\* balance, and then the balance is 0; in every other case it aborts and the
\* balance is unchanged.
C12_WithdrawGuarded ==
    [][ feeLast'.op = "withdraw" =>
          LET owner == StorageGet(feeStore, K_OWNER)
              allowed == /\ owner # EmptyBytes
                         /\ feeLast'.caller = owner
                         /\ get_fee_balance(feeStore) > 0
          IN  IF allowed
              THEN feeLast'.outcome = "returned" /\ get_fee_balance(feeStore') = 0
              ELSE /\ feeLast'.outcome = "aborted"
                   /\ get_fee_balance(feeStore') = get_fee_balance(feeStore)
      ]_vars

\* The owner recorded by _deploy has just called withdraw on a balance of 0,
\* and the call aborted.
C12_Witness ==
    /\ feeDeployed
    /\ feeLast.op = "withdraw"
    /\ feeLast.caller = StorageGet(feeStore, K_OWNER)
    /\ feeLast.outcome = "aborted"
    /\ feeLast.error = "No fees to withdraw"
    /\ get_fee_balance(feeStore) = 0

\* C14: is_dd_complete is true exactly when the docs_status last stored by
\* set_invoice_dd for the invoice equals COMPLETE or VERIFIED, and false for
\* every other stored value and for an invoice with none.
C14_CompleteIffCompleteOrVerified ==
    \A invoice_id \in DDInvoiceIds :
        is_dd_complete(ddStore, invoice_id) <=> ddDocsStatus[invoice_id] \in {COMPLETE, VERIFIED}

\* C15: every evaluation has 1 <= risk_score <= 5 and
\* yield_bps = 300 + 100 * risk_score, hence 400 <= yield_bps <= 800.
C15_RiskBounds ==
    riskLast.called =>
        /\ 1 <= riskLast.result.risk_score /\ riskLast.result.risk_score <= 5
        /\ riskLast.result.yield_bps = 300 + 100 * riskLast.result.risk_score
        /\ 400 <= riskLast.result.yield_bps /\ riskLast.result.yield_bps <= 800

\* An evaluation of metadata with no amount and no due date: the defaults give
\* the lowest score and yield.
C15_Witness ==
    /\ riskLast.called
    /\ riskLast.amount = 0 /\ riskLast.due_date = 0 /\ riskLast.debtor_country = ""
    /\ riskLast.result = [risk_score |-> 1, yield_bps |-> 400]

\* C16: at a fixed evaluation time and country, no larger amount and no later
\* due date gives a lower risk_score or yield_bps; amount <= 500,000 with a
\* term of at most 60 days scores 1, amount > 1,000,000 with a term over 90
\* days scores 5.
C16_RiskMonotone ==
    riskLast.called =>
        LET term == days_until_due(riskLast.due_date, riskLast.current_time)
        IN  /\ \A amount \in RiskAmounts, offset \in RiskDueOffsets :
                  LET later == evaluate(amount, riskLast.current_time + offset,
                                        riskLast.debtor_country, riskLast.current_time)
                  IN  (amount >= riskLast.amount
                         /\ riskLast.current_time + offset >= riskLast.due_date)
                        => /\ later.risk_score >= riskLast.result.risk_score
                           /\ later.yield_bps >= riskLast.result.yield_bps
            /\ (riskLast.amount <= 500000 /\ term <= 60) => riskLast.result.risk_score = 1
            /\ (riskLast.amount > 1000000 /\ term > 90) => riskLast.result.risk_score = 5

\* An evaluation of more than 1,000,000 due in more than 90 days scored 5.
C16_Witness ==
    /\ riskLast.called
    /\ riskLast.amount > 1000000
    /\ days_until_due(riskLast.due_date, riskLast.current_time) > 90
    /\ riskLast.result.risk_score = 5

\* C17: every get-invoice run prints its output and exits with status 0, and
\* so does every demo-flow run.
C17_ReadCommandsExitZero ==
    /\ cliLast.command = "get-invoice" => cliLast.printed /\ cliLast.exit_status = 0
    /\ demo.pc \in {"done", "crashed"} => DemoPrinted /\ DemoExitStatus = 0

\* C18: set_status returns true and stores the status exactly when the id is
\* registered and the status is one of the five allowed values; otherwise it
\* returns false and the stored status is unchanged; the stored status of a
\* registered invoice is always one of the five.
C18_SetStatusExactly ==
    [][ /\ regLast'.op = "set_status" =>
              LET id == regLast'.id
                  accepted == id \in regRegistered /\ _status_allowed(regLast'.arg)
              IN  /\ regLast'.ret <=> accepted
                  /\ accepted => get_status(regStore', id) = Str(regLast'.arg)
                  /\ ~accepted => get_status(regStore', id) = get_status(regStore, id)
        /\ \A id \in regRegistered' :
              \E n \in 1 .. Len(ALLOWED_STATUSES) :
                  get_status(regStore', id) = Str(ALLOWED_STATUSES[n])
      ]_vars

\* C19: update_status and settle_invoice return false and write nothing for an
\* id that was never registered; for a registered id settle_invoice returns
\* true and leaves the status 'settled', whatever update_status calls came
\* before.
C19_SettleAlwaysSettles ==
    [][ /\ (iaLast'.op \in {"update_status", "settle_invoice"}
               /\ iaLast'.id \notin iaRegistered)
              => ~iaLast'.ret /\ iaStore' = iaStore
        /\ (iaLast'.op = "settle_invoice" /\ iaLast'.id \in iaRegistered)
              => iaLast'.ret /\ ia_status(iaStore', iaLast'.id) = Str("settled")
      ]_vars

\* C20: get_terms_yield returns the yield last stored for the invoice when its
\* stored encoding is exactly one byte, and 0 when the encoding needs more
\* than one byte or no yield is stored.
C20_YieldReadBack ==
    \A invoice_id \in TermsInvoiceIds :
        get_terms_yield(termsStore, invoice_id) =
            IF termsYield[invoice_id] = NoYield THEN 0
            ELSE IF Len(IntBytes(termsYield[invoice_id][1])) = 1
                 THEN termsYield[invoice_id][1]
                 ELSE 0

\* C21: in a turn where the model asks for tool calls, when the second model
\* call is made the history it is given is the history of the first call,
\* then the assistant message carrying the tool calls, then one tool-role
\* message per requested call, in request order.
C21_ToolResultsBeforeSecondCall ==
    (chatLast.tool_calls # NoToolCalls /\ chatLast.second_made) =>
        LET base == Len(chatLast.first_messages)
            given == chatLast.second_messages
            n == Len(chatLast.tool_calls) IN
        /\ Len(given) = base + 1 + n
        /\ SubSeq(given, 1, base) = chatLast.first_messages
        /\ given[base + 1] = ResponseMessage(chatLast.tool_calls)
        /\ \A i \in 1..n :
              /\ given[base + 1 + i].role = "tool"
              /\ given[base + 1 + i].tool_call_id = i
              /\ given[base + 1 + i].name = chatLast.tool_calls[i].name

\* The system prompt and the tool names each mode stands for.
ModePrompt(mode) ==
    IF mode = EXPORTER THEN SYSTEM_PROMPT_EXPORTER
    ELSE IF mode = IMPORTER THEN SYSTEM_PROMPT_IMPORTER
    ELSE IF mode = INVESTOR THEN SYSTEM_PROMPT_INVESTOR
    ELSE SYSTEM_PROMPT_ADMIN

ModeToolNames(mode) ==
    IF mode = EXPORTER THEN EXPORTER_TOOLS
    ELSE IF mode = IMPORTER THEN IMPORTER_TOOLS
    ELSE IF mode = INVESTOR THEN INVESTOR_TOOLS
    ELSE ADMIN_TOOLS

\* C22: a 'mode <name>' line with a valid name leaves the history as exactly
\* the system prompt of the new mode and the tool schema as that mode's
\* schema; with an unknown name it leaves mode, schema and history unchanged;
\* neither calls the model.
C22_ModeSwitchResets ==
    [][ LET line == Strip(agentLast'.user_input) IN
        (agentLast'.user_input # Interrupt /\ IsModeCommand(line)) =>
            /\ agentLast'.llm_calls = 0
            /\ IF NewMode(line) \in { EXPORTER, IMPORTER, INVESTOR, ADMIN }
               THEN /\ agentMode' = NewMode(line)
                    /\ agentMessages' = << Message("system", ModePrompt(NewMode(line))) >>
                    /\ agentTools' = get_mode_config(NewMode(line)).tools
                    /\ \A i \in 1..Len(agentTools') : agentTools'[i] \in ModeToolNames(NewMode(line))
               ELSE UNCHANGED <<agentMode, agentTools, agentMessages>>
      ]_vars

\* A mode command has put the agent in importer mode, a mode it never starts
\* in, and the history is the single system prompt.
C22_Witness ==
    /\ IsModeCommand(Strip(agentLast.user_input))
    /\ NewMode(Strip(agentLast.user_input)) = IMPORTER
    /\ agentMode = IMPORTER
    /\ Len(agentMessages) = 1

C24_CounterCountsIncrements ==
    [][ /\ ss_counter(ssStore') = ssIncrements'
        /\ ssLast'.op = "increment" => ssLast'.n = ss_counter(ssStore) + 1
        /\ (ssLast'.op = "store" /\ ssLast'.key = "") => (~ssLast'.ok /\ ssStore' = ssStore)
      ]_vars

\* C25: link_invoice returns true exactly when the exporter has a registered
\* profile; is_invoice_linked(exporter, invoice) is true exactly when a
\* link_invoice call for that pair has succeeded earlier; a linked pair has a
\* registered exporter.
C25_LinkedIffLinkSucceeded ==
    [][ /\ erLast'.op = "link_invoice" => (erLast'.ret <=> erLast'.exporter_id \in erProfiles)
        /\ \A exporter_id \in ERExporterIds, invoice_id \in ERInvoiceIds :
              /\ er_is_invoice_linked(erStore', exporter_id, invoice_id)
                    <=> <<exporter_id, invoice_id>> \in erLinked'
              /\ er_is_invoice_linked(erStore', exporter_id, invoice_id)
                    => exporter_id \in erProfiles'
      ]_vars

\* The key/value pairs of a dictionary, whatever the order they were inserted
\* in, at the top level and inside a nested dictionary.
ValuePairs(value) ==
    [kind |-> value.kind, text |-> value.text,
     items |-> { value.items[i] : i \in 1..Len(value.items) }]

MetadataPairs(metadata) ==
    { <<metadata[i][1], ValuePairs(metadata[i][2])>> : i \in 1..Len(metadata) }

\* C26: two metadata mappings with the same key/value pairs have the same
\* content hash, whatever the insertion order of their keys.
C26_HashIgnoresInsertionOrder ==
    MetadataPairs(listLast.a) = MetadataPairs(listLast.b) => listLast.hash_a = listLast.hash_b

\* Two mappings of three items with the same pairs, inserted in different
\* orders, hashed to the same digest.
C26_Witness ==
    /\ Len(listLast.a) = 3
    /\ Len(listLast.b) = 3
    /\ listLast.a[1][1] # listLast.b[1][1]
    /\ MetadataPairs(listLast.a) = MetadataPairs(listLast.b)
    /\ listLast.hash_a = listLast.hash_b

\* C27: a successful transfer of n from investor A to a different investor B
\* on an invoice lowers A's allocation by n, raises B's by n, and leaves both
\* redeemed amounts and the invoice's total_allocated and total_claimed
\* unchanged.
C27_TransferMovesAllocation ==
    [][ (shareLast'.op = "transfer" /\ shareLast'.ret /\ shareLast'.from # shareLast'.to) =>
          LET i == shareLast'.invoice_id
              A == shareLast'.from
              B == shareLast'.to
              n == shareLast'.amount
          IN  /\ ShareAllocated(shareStore', i, A) = ShareAllocated(shareStore, i, A) - n
              /\ ShareAllocated(shareStore', i, B) = ShareAllocated(shareStore, i, B) + n
              /\ ShareRedeemedAmt(shareStore', i, A) = ShareRedeemedAmt(shareStore, i, A)
              /\ ShareRedeemedAmt(shareStore', i, B) = ShareRedeemedAmt(shareStore, i, B)
              /\ total_allocated(shareStore', i) = total_allocated(shareStore, i)
              /\ total_claimed(shareStore', i) = total_claimed(shareStore, i)
      ]_vars

\* A transfer of 2 between different investors went through and the receiver
\* now holds more than the amount moved.
C27_Witness ==
    /\ shareLast.op = "transfer"
    /\ shareLast.ret
    /\ shareLast.from # shareLast.to
    /\ shareLast.amount = 2
    /\ ShareAllocated(shareStore, shareLast.invoice_id, shareLast.to) > 2

\* C28: allocate, transfer and redeem with amount <= 0 return false, emit no
\* event and change nothing; so does redeem with an amount above the
\* investor's unredeemed balance.
C28_NonPositiveRejected ==
    [][ /\ (shareLast'.op \in {"allocate", "transfer", "redeem"} /\ shareLast'.amount <= 0) =>
              (~shareLast'.ret /\ ~shareLast'.event /\ shareStore' = shareStore)
        /\ (/\ shareLast'.op = "redeem"
            /\ shareLast'.amount >
                  ShareAvailable(shareStore, shareLast'.invoice_id, shareLast'.from)) =>
              (~shareLast'.ret /\ ~shareLast'.event /\ shareStore' = shareStore)
      ]_vars

\* A redeem of more than the unredeemed balance was refused for an investor
\* who holds an allocation and has redeemed part of it.
C28_Witness ==
    /\ shareLast.op = "redeem"
    /\ ~shareLast.ret
    /\ shareLast.amount > 0
    /\ ShareRedeemedAmt(shareStore, shareLast.invoice_id, shareLast.from) > 0
    /\ shareLast.amount > ShareAvailable(shareStore, shareLast.invoice_id, shareLast.from)
    /\ shareLast.amount <= ShareAllocated(shareStore, shareLast.invoice_id, shareLast.from)

\* C29: register_invoice returns false for an id that was registered before,
\* whatever hash either call was given, and leaves the id's invoice address,
\* share address and status unchanged; attach_investor_share returns false
\* and writes nothing for an id that is not registered.
C29_RegisterOnce ==
    [][ /\ (regLast'.op = "register_invoice" /\ regLast'.id \in regRegistered) =>
              /\ ~regLast'.ret
              /\ get_invoice_contract(regStore', regLast'.id) = get_invoice_contract(regStore, regLast'.id)
              /\ get_share_contract(regStore', regLast'.id) = get_share_contract(regStore, regLast'.id)
              /\ get_status(regStore', regLast'.id) = get_status(regStore, regLast'.id)
        /\ (regLast'.op = "attach_investor_share" /\ regLast'.id \notin regRegistered) =>
              (~regLast'.ret /\ regStore' = regStore)
      ]_vars

\* What the getters other than the yield report for an invoice.
TermsOtherThanYield(store, invoice_id) ==
    << get_terms(store, invoice_id), get_terms_importer(store, invoice_id),
       is_confirmed(store, invoice_id), get_confirmer(store, invoice_id) >>

\* C30: update_terms returns false and writes nothing when no terms were
\* registered for the invoice; when terms exist it returns true and leaves
\* get_terms, get_terms_importer, is_confirmed and get_confirmer of the
\* invoice unchanged; register_terms on an invoice that has terms returns
\* false and changes nothing.
C30_UpdateOnlyYield ==
    [][ /\ (termsLast'.op = "update_terms" /\ termsLast'.invoice_id \notin termsRegistered) =>
              (~termsLast'.ret /\ termsStore' = termsStore)
        /\ (termsLast'.op = "update_terms" /\ termsLast'.invoice_id \in termsRegistered) =>
              /\ termsLast'.ret
              /\ TermsOtherThanYield(termsStore', termsLast'.invoice_id)
                    = TermsOtherThanYield(termsStore, termsLast'.invoice_id)
        /\ (termsLast'.op = "register_terms" /\ termsLast'.invoice_id \in termsRegistered) =>
              (~termsLast'.ret /\ termsStore' = termsStore)
      ]_vars

IsListing(call) == call.operation = "list_invoice"
IsCreating(call) == call.operation = "create_invoice"

\* C31: create_and_list invokes list_invoice only after create_invoice returned
\* a result reporting success; a create result that does not report success is
\* returned unchanged with no listing; and when both steps return, the result's
\* success is the conjunction of the two successes and it carries the
\* transaction ids of both.
C31_ListOnlyAfterCreate ==
    LET out == calLast.out
        listed == { k \in 1..Len(out.calls) : IsListing(out.calls[k]) }
    IN  calLast.op = "create_and_list" =>
          /\ \A k \in listed :
                /\ out.create_result.outcome = "returned"
                /\ out.create_result.success
                /\ \E j \in 1..(k - 1) : IsCreating(out.calls[j])
          /\ (out.create_result.outcome = "returned" /\ ~out.create_result.success)
                => (out.res = out.create_result /\ listed = {})
          /\ (out.create_result.outcome = "returned" /\ out.create_result.success
                /\ out.list_result.outcome = "returned")
                => /\ out.res.outcome = "returned"
                   /\ out.res.success = (out.create_result.success /\ out.list_result.success)
                   /\ out.res.create_tx = out.create_result.tx_hash
                   /\ out.res.list_tx = out.list_result.tx_hash

C31_Witness ==
    /\ calLast.op = "create_and_list"
    /\ calLast.seller.kind = "str"
    /\ Len(calLast.out.calls) = 2
    /\ IsCreating(calLast.out.calls[1])
    /\ IsListing(calLast.out.calls[2])
    /\ calLast.out.res.success
    /\ calLast.out.res.create_tx = ZeroTxHash
    /\ calLast.out.res.list_tx = ZeroTxHash

\* C32: a register_exporter or register_investor call that returns success for
\* an address leaves the record of every other address that the participants
\* file holds, in either partition, present and unchanged.
C32_RegistrationPreservesOthers ==
    [][ (onbLast'.outcome = "returned" /\ onbLast'.success) =>
          \A pair \in Pairs(onbFile) :
              pair[2] # onbLast'.wallet_address =>
                  /\ pair \in Pairs(onbFile')
                  /\ onbFile'[pair[1]][pair[2]] = onbFile[pair[1]][pair[2]]
      ]_vars

\* C33: allocate and redeem on (invoice i, investor a) and transfer on (i, a, b)
\* change the allocated and redeemed amounts that get_share reports only for the
\* pairs (i, a) and (i, b), and total_allocated and total_claimed only for i;
\* the amounts of every other pair and the totals of every other invoice stay
\* as they were.
C33_PairIsolation ==
    [][ /\ \A i \in ShareInvoiceIds, v \in ShareInvestorIds :
              (i # shareLast'.invoice_id \/ v \notin { shareLast'.from, shareLast'.to }) =>
                  /\ ShareAllocated(shareStore', i, v) = ShareAllocated(shareStore, i, v)
                  /\ ShareRedeemedAmt(shareStore', i, v) = ShareRedeemedAmt(shareStore, i, v)
        /\ \A i \in ShareInvoiceIds :
              i # shareLast'.invoice_id =>
                  /\ total_allocated(shareStore', i) = total_allocated(shareStore, i)
                  /\ total_claimed(shareStore', i) = total_claimed(shareStore, i)
      ]_vars

\* C39: a transfer from an investor to the same investor of a positive amount
\* within the unredeemed balance returns true and leaves the investor's
\* allocated and redeemed amounts and the invoice's two totals unchanged.
C39_SelfTransferNeutral ==
    [][ ( /\ shareLast'.op = "transfer"
          /\ shareLast'.from = shareLast'.to
          /\ 0 < shareLast'.amount
          /\ shareLast'.amount <= ShareAvailable(shareStore, shareLast'.invoice_id, shareLast'.from) )
        => /\ shareLast'.ret
           /\ ShareAllocated(shareStore', shareLast'.invoice_id, shareLast'.from)
                = ShareAllocated(shareStore, shareLast'.invoice_id, shareLast'.from)
           /\ ShareRedeemedAmt(shareStore', shareLast'.invoice_id, shareLast'.from)
                = ShareRedeemedAmt(shareStore, shareLast'.invoice_id, shareLast'.from)
           /\ total_allocated(shareStore', shareLast'.invoice_id)
                = total_allocated(shareStore, shareLast'.invoice_id)
           /\ total_claimed(shareStore', shareLast'.invoice_id)
                = total_claimed(shareStore, shareLast'.invoice_id)
      ]_vars

\* An investor holding 2 with 1 redeemed has transferred 1 to itself.
C39_Witness ==
    /\ shareLast.op = "transfer"
    /\ shareLast.from = shareLast.to
    /\ shareLast.amount = 1
    /\ shareLast.ret
    /\ ShareAllocated(shareStore, shareLast.invoice_id, shareLast.from) = 2
    /\ ShareRedeemedAmt(shareStore, shareLast.invoice_id, shareLast.from) = 1

\* C34: register_terms, update_terms and confirm_payable called for one invoice
\* leave get_terms, get_terms_yield, get_terms_importer, is_confirmed and
\* get_confirmer of every other invoice unchanged, and register_terms for an
\* invoice succeeds exactly when no earlier register_terms for that same
\* invoice has succeeded.
C34_InvoiceIsolation ==
    [][ termsLast'.op \in { "register_terms", "update_terms", "confirm_payable" } =>
          /\ \A y \in TermsInvoiceIds \ { termsLast'.invoice_id } :
                /\ get_terms(termsStore', y) = get_terms(termsStore, y)
                /\ get_terms_yield(termsStore', y) = get_terms_yield(termsStore, y)
                /\ get_terms_importer(termsStore', y) = get_terms_importer(termsStore, y)
                /\ is_confirmed(termsStore', y) = is_confirmed(termsStore, y)
                /\ get_confirmer(termsStore', y) = get_confirmer(termsStore, y)
          /\ termsLast'.op = "register_terms" =>
                (termsLast'.ret <=> termsLast'.invoice_id \notin termsRegistered)
      ]_vars

\* C37: confirm_payable succeeds only for the importer id that register_terms
\* stored for the invoice, so the confirmer of a confirmed payable is the
\* importer of its terms.
C37_ConfirmerIsTermsImporter ==
    [][ /\ (termsLast'.op = "confirm_payable" /\ termsLast'.ret) =>
              termsLast'.importer_id = get_terms_importer(termsStore, termsLast'.invoice_id)
        /\ \A invoice_id \in TermsInvoiceIds :
              is_confirmed(termsStore', invoice_id) =>
                  get_confirmer(termsStore', invoice_id) = get_terms_importer(termsStore', invoice_id)
      ]_vars

\* C35: once the status of an invoice is SETTLED or CANCELLED, no call of
\* register_invoice, attach_investor_share, set_status or settle changes it.
C35_TerminalStatusesStay ==
    [][ \A id \in RegIds :
            (get_status(regStore, id) = Str("SETTLED") \/ get_status(regStore, id) = Str("CANCELLED"))
                => get_status(regStore', id) = get_status(regStore, id)
      ]_vars

\* C36: the status of an invoice becomes SETTLED only in a step that starts
\* with the status ACTIVE or VERIFIED.
C36_SettledOnlyFromLive ==
    [][ \A id \in RegIds :
            (get_status(regStore', id) = Str("SETTLED") /\ get_status(regStore, id) # Str("SETTLED"))
                => RegLive(get_status(regStore, id))
      ]_vars

\* The names of the tool schema the model is offered in the current mode.
SchemaNames(tools) == { tools[i] : i \in 1..Len(tools) }

\* C38: in exporter, importer and investor mode, every tool call of the model
\* that names a tool outside the current mode's schema is answered with the
\* unknown-tool error instead of the tool's result: only tools of the schema
\* are executed.
C38_OnlySchemaToolsExecuted ==
    [][ (agentMode \in { EXPORTER, IMPORTER, INVESTOR }) =>
          \A k \in (Len(agentMessages) + 1)..Len(agentMessages') :
              ( /\ agentMessages'[k].role = "tool"
                /\ agentMessages'[k].name \notin SchemaNames(agentTools) )
              => agentMessages'[k].content = execute_tool_call("(no such tool)", "")
      ]_vars

\* The messages that name mock mode.
NamesMockMode(message) ==
    message \in { "Transaction sent (mock mode)",
                  "Mock transaction - Neo libraries not available",
                  "Mock call - Neo libraries not fully configured",
                  "Mock call" }

MockInvokeResult(res) ==
    /\ res.outcome = "returned" /\ res.success = TRUE
    /\ res.tx_hash = ZeroTxHash /\ NamesMockMode(res.message)

MockCallResult(res) ==
    /\ res.outcome = "returned" /\ res.success = TRUE
    /\ res.result = None /\ NamesMockMode(res.message)

\* C7 (as claimed): without a live client, every invoke_contract and every
\* call_contract returns success=true, with a zero-filled transaction id
\* (invoke) or a null result (call) and a message naming mock mode.
C7_MockAlwaysSucceeds ==
    ~LiveClient(baseAgent) =>
        /\ baseLast.op = "invoke_contract" => MockInvokeResult(baseLast.res)
        /\ baseLast.op = "call_contract" => MockCallResult(baseLast.res)

\* C7 (amended): without a live client, every call_contract, and every
\* invoke_contract for which a signing key is given or configured, returns
\* that synthetic success.
C7_MockSucceedsGivenKey ==
    ~LiveClient(baseAgent) =>
        /\ (baseLast.op = "invoke_contract"
             /\ (Truthy(baseLast.signer_private_key) \/ baseAgent.private_key # ""))
           => MockInvokeResult(baseLast.res)
        /\ baseLast.op = "call_contract" => MockCallResult(baseLast.res)

\* C7's case: no client object at all, the key comes from the call's argument
\* alone, and the invoke returned the mock transaction.
C7_Witness ==
    /\ baseAgent.rpc_client = None
    /\ baseAgent.private_key = ""
    /\ baseLast.op = "invoke_contract"
    /\ baseLast.signer_private_key = "signer-wif"
    /\ baseLast.res.message = "Mock transaction - Neo libraries not available"

\* C8: invoke_contract raises the missing-credential error exactly when the
\* signer_private_key argument and the configured key are both empty; otherwise
\* it returns the synthetic success, with or without a live client.
C8_MissingCredential ==
    baseLast.op = "invoke_contract" =>
        IF ~Truthy(baseLast.signer_private_key) /\ baseAgent.private_key = ""
        THEN /\ baseLast.res.outcome = "raised"
             /\ baseLast.res.error = "ValueError: No private key available for signing"
        ELSE MockInvokeResult(baseLast.res)

\* C8's case: an empty (not absent) key argument, no configured key, a live
\* client present, and the call raised.
C8_Witness ==
    /\ baseLast.op = "invoke_contract"
    /\ baseLast.signer_private_key = ""
    /\ baseAgent.private_key = ""
    /\ LiveClient(baseAgent)
    /\ baseLast.res.outcome = "raised"

====
